---- MODULE Spec2Model ----
(***************************************************************************)
(* Room-management dashboard (marklem22/baybay): the availability          *)
(* scheduling and timeline-resolution engine, its schedule editor, the     *)
(* audit diff, the schedules route and the JSON file store.                *)
(*                                                                         *)
(* Representation choices                                                  *)
(*  - A Date is a local calendar day, held as the number of days from      *)
(*    Epoch (local midnight: every Date of the code modelled here is built *)
(*    at or reset to midnight).  getTime() of a Date is counted in hours   *)
(*    and depends on the zone: a midnight in daylight saving time comes    *)
(*    one hour earlier.                                                    *)
(*  - A date key "YYYY-MM-DD" is held as the number YYYYMMDD: JavaScript   *)
(*    compares the zero-padded strings character by character, which for   *)
(*    keys of this form is the order of these numbers.  The empty string   *)
(*    (a cleared date input) is held as 0: it sorts before every key.      *)
(*  - An optional field of a StatusEntry is a field the record may lack.   *)
(***************************************************************************)
EXTENDS Integers, Sequences, FiniteSets, TLC

VARIABLES
    \* ---- lib/roomData consumers (AppContext): rooms, schedule map, clock
    huts,            \* Room[]: sequence of [number, status]
    schedules,       \* Record<number, StatusEntry[]>: function on a set of room numbers
    today,           \* the current local day (new Date(), setHours(0,0,0,0))
    resolved,        \* last result of getStatusForDate / getScheduleEntryForDate
    timeline         \* last result of buildTimeline, with the window it was built for

resolveVars == <<huts, schedules, today, resolved, timeline>>

VARIABLES
    \* ---- components/RoomModal: the schedule editor of one room
    localSchedule,      \* useState<StatusEntry[]>
    dayOverlapError,    \* useState<string | null>
    dayBookingError,
    rangeOverlapError,
    rangeBookingError,
    confirmMsg,
    nextId,             \* ids handed out by generateId so far
    updateCall,         \* the entries the last handler run passed to onUpdateSchedule,
                        \* null when that run made no call
    lastOp              \* the handler run that made the last step: its arguments and
                        \* the list it found

editorVars == <<localSchedule, dayOverlapError, dayBookingError, rangeOverlapError,
                rangeBookingError, confirmMsg, nextId, updateCall, lastOp>>

VARIABLES
    \* ---- context/AppContext: one run of buildScheduleLogPayload
    diffInput,          \* its arguments, and whether it has been called
    logPayload          \* the ActivityLogCreatePayload[] it returned

diffVars == <<diffInput, logPayload>>

VARIABLES
    \* ---- api/schedules route
    schedulesFile,      \* the parsed content of schedules.json: key -> entry list
    fileShape,          \* what schedules.json holds: "object" (schedulesFile), "array"
                        \* (JSON that is no object) or "unparsable" (no JSON at all)
    requests            \* the PATCH requests in progress, one per connection

serverVars == <<schedulesFile, fileShape, requests>>

VARIABLES
    \* ---- lib/server/jsonFileStore, for one filePath
    fs,                 \* the directory: path -> [text, mtimeMs]
    now,                \* the file system's clock, in ticks of its timestamp resolution
    jsonCache,          \* jsonCache.get(filePath): null or [mtimeMs, size, data]
    writeQueue,         \* writeQueue.get(filePath): the write whose promise it holds, 0 if none
    writes,             \* the writeJsonFile calls: [pc, data, prev, fileStat, before]
    reads               \* the readJsonFile calls: [pc, fileStat, raw, result, expect]

storeVars == <<fs, now, jsonCache, writeQueue, writes, reads>>

VARIABLES
    \* ---- context/AppContext: the provider's state beside huts and schedules
    toast,              \* useState<string | null>: the message shown last
    memoDeps,           \* the dependency array the timeline memo was computed for
    updates,            \* the handleUpdateSchedule calls and where each one stands
    activityLogs,       \* the content of activityLogs.json, newest first
    scheduleLoad        \* the loadSchedules effect: "pending" until its fetch is
                        \* answered, then "loaded" or "failed"

appVars == <<toast, memoDeps, updates, activityLogs, scheduleLoad>>

VARIABLES
    \* ---- components/Timeline: the window the grid shows
    zone,               \* the time zone of the browser: the days whose local
                        \* midnight falls in daylight saving time
    windowMode,         \* useState<TimelineWindow>
    sevenDayOffset,     \* useState(0)
    monthOffset         \* useState(0)

windowVars == <<zone, windowMode, sevenDayOffset, monthOffset>>

VARIABLES
    \* ---- api/logs routes
    archivedLogs,       \* the content of archivedLogs.json, newest first
    logRequests         \* the requests to the logs routes and where each one stands

logVars == <<archivedLogs, logRequests>>

vars == <<resolveVars, editorVars, diffVars, serverVars, storeVars, appVars,
          windowVars, logVars>>

----------------------------------------------------------------------------
(* Bounds *)

MaxDay == 2          \* calendar days 0..MaxDay around Epoch carry entries
MaxLen == 2          \* longest entry list drawn as a pure-function input
MaxWindow == 3       \* longest timeline window (days)
MaxOffset == 2       \* |startDayOffset| of a timeline window
MaxEditorDay == 1    \* calendar days 0..MaxEditorDay offered by the editor's date inputs
MaxIds == 2          \* entries one editor session creates (generateId calls)
MaxReq == 2          \* PATCH requests in progress at once
MaxPatchLen == 2     \* longest entry list a PATCH body carries
MaxWrites == 2       \* writeJsonFile calls of one behaviour
MaxReaders == 2      \* readJsonFile calls of one behaviour
MaxClock == 1        \* timestamp ticks that pass during one behaviour
MaxUpdates == 2      \* handleUpdateSchedule calls of one behaviour
MaxWeeks == 2        \* weeks the seven-day window is moved off today, either way
MaxMonthOffset == 2  \* |monthOffset| of a month window
MaxLogReq == 3       \* requests to the logs routes of one behaviour

----------------------------------------------------------------------------
(* Vocabulary *)

\* JavaScript null / undefined
null == [null |-> TRUE]

allStatuses == <<"available", "occupied", "maintenance", "cleaning">>

RoomStatus == {allStatuses[i] : i \in DOMAIN allStatuses}

Range(s) == {s[i] : i \in DOMAIN s}

SeqsUpTo(S, n) == UNION {[1..k -> S] : k \in 0..n}

HasBookedBy(entry) == "bookedBy" \in DOMAIN entry

----------------------------------------------------------------------------
(* Date: the local calendar *)

Epoch == <<2024, 12, 30>>

IsLeap(y) == (y % 4 = 0 /\ y % 100 # 0) \/ y % 400 = 0

DaysInMonth(y, m) ==
    IF m = 2 THEN (IF IsLeap(y) THEN 28 + 1 ELSE 28)
    ELSE IF m \in {4, 6, 9, 11} THEN 30 ELSE 31

RECURSIVE FromMonthStart(_, _, _)
\* the calendar fields of the day k days after the first of month m of year
\* y, k of either sign: whole months are stepped over until k falls in one
FromMonthStart(y, m, k) ==
    IF k < 0
    THEN IF m > 1 THEN FromMonthStart(y, m - 1, k + DaysInMonth(y, m - 1))
                  ELSE FromMonthStart(y - 1, 12, k + 31)
    ELSE IF k >= DaysInMonth(y, m)
    THEN IF m < 12 THEN FromMonthStart(y, m + 1, k - DaysInMonth(y, m))
                   ELSE FromMonthStart(y + 1, 1, k - 31)
    ELSE <<y, m, k + 1>>

\* getFullYear / getMonth()+1 / getDate of the Date n days from Epoch
DateFields(n) == FromMonthStart(Epoch[1], Epoch[2], n + Epoch[3] - 1)

\* Date.prototype.setDate(value): day `value` of the Date's month, values
\* outside the month rolling over into the neighbouring months.
setDate(date, value) ==
    LET f == DateFields(date)
        firstOfMonth == date - (f[3] - 1)
    IN  firstOfMonth + (value - 1)

getDate(date) == DateFields(date)[3]

formatDateInput(value) ==
    LET f == DateFields(value) IN f[1] * 10000 + f[2] * 100 + f[3]

\* a zone is the span of days whose local midnight falls in daylight saving
\* time: the midnights after that of dstStart up to that of dstEnd (the
\* clocks change in the night hours after midnight)
Manila == [name |-> "Asia/Manila", dstStart |-> 0, dstEnd |-> 0]

\* daylight saving time from 2024-03-10 to 2024-11-03
NewYork == [name |-> "America/New_York", dstStart |-> -295, dstEnd |-> -57]

\* daylight saving time from 2024-10-06 to 2025-04-06
Sydney == [name |-> "Australia/Sydney", dstStart |-> -85, dstEnd |-> 97]

Zones == {Manila, NewYork, Sydney}

inDaylightTime(z, date) == z.dstStart < date /\ date <= z.dstEnd

\* Date.prototype.getTime() of the local midnight of date in zone z, in
\* hours from the standard-time midnight of Epoch
getTimeIn(z, date) == 24 * date - (IF inDaylightTime(z, date) THEN 1 ELSE 0)

getTime(date) == getTimeIn(zone, date)

\* 1000 * 60 * 60 * 24 milliseconds, in hours
DAY_MS == 24

Days == 0..MaxDay

DateKeys == {formatDateInput(d) : d \in Days}

----------------------------------------------------------------------------
(* lib/roomData: status resolution *)

RECURSIVE WalkBack(_, _, _)
\* for (let i = schedule.length - 1; i >= 0; i--): the index of the first
\* entry met whose range contains dateStr, 0 when the loop runs out
WalkBack(schedule, dateStr, i) ==
    IF i = 0 THEN 0
    ELSE IF dateStr >= schedule[i].startDate /\ dateStr <= schedule[i].endDate THEN i
    ELSE WalkBack(schedule, dateStr, i - 1)

RECURSIVE WalkForward(_, _, _)
WalkForward(schedule, dateStr, i) ==
    IF i > Len(schedule) THEN 0
    ELSE IF dateStr >= schedule[i].startDate /\ dateStr <= schedule[i].endDate THEN i
    ELSE WalkForward(schedule, dateStr, i + 1)

getStatusForDate_Forward(schedule, date, defaultStatus) ==
    LET i == WalkForward(schedule, formatDateInput(date), 1)
    IN  IF i = 0 THEN defaultStatus ELSE schedule[i].status

\* the loop stopping at i > 0
getStatusForDate_SkipFirst(schedule, date, defaultStatus) ==
    LET i == WalkBack(schedule, formatDateInput(date), Len(schedule))
    IN  IF i <= 1 THEN defaultStatus ELSE schedule[i].status

getStatusForDate(schedule, date, defaultStatus) ==
    LET i == WalkBack(schedule, formatDateInput(date), Len(schedule))
    IN  IF i = 0 THEN defaultStatus ELSE schedule[i].status

getScheduleEntryForDate(schedule, date) ==
    LET i == WalkBack(schedule, formatDateInput(date), Len(schedule))
    IN  IF i = 0 THEN null ELSE schedule[i]

buildTimeline_NoOffset(rooms, days, scheds, startDayOffset) ==
    [n \in {rooms[r].number : r \in DOMAIN rooms} |->
        LET room == rooms[CHOOSE r \in DOMAIN rooms : rooms[r].number = n]
            roomSchedule == IF n \in DOMAIN scheds THEN scheds[n] ELSE <<>>
        IN  [k \in 1..days |->
                getStatusForDate(roomSchedule,
                                 setDate(today, getDate(today) + (k - 1)),
                                 room.status)]]

\* the body of buildTimeline with the day new Date() gives it made explicit
buildTimelineOn(day, rooms, days, scheds, startDayOffset) ==
    [n \in {rooms[r].number : r \in DOMAIN rooms} |->
        LET room == rooms[CHOOSE r \in DOMAIN rooms : rooms[r].number = n]
            roomSchedule == IF n \in DOMAIN scheds THEN scheds[n] ELSE <<>>
        IN  [k \in 1..days |->
                getStatusForDate(roomSchedule,
                                 setDate(day, getDate(day) + startDayOffset + (k - 1)),
                                 room.status)]]

\* timeline[room.number] = Array.from({length: days}, (_, i) => ...): element
\* i of the array is element i + 1 of the sequence
buildTimeline(rooms, days, scheds, startDayOffset) ==
    buildTimelineOn(today, rooms, days, scheds, startDayOffset)

----------------------------------------------------------------------------
(* Strings: a string is the sequence of its characters *)

RECURSIVE trimStart(_)
trimStart(s) == IF s # <<>> /\ Head(s) = " " THEN trimStart(Tail(s)) ELSE s

RECURSIVE trimEnd(_)
trimEnd(s) ==
    IF s # <<>> /\ s[Len(s)] = " " THEN trimEnd(SubSeq(s, 1, Len(s) - 1)) ELSE s

trim_None(s) == s

\* String.prototype.trim
trim(s) == trimEnd(trimStart(s))

----------------------------------------------------------------------------
(* components/RoomModal: the schedule editor *)

statusLabel ==
    [s \in RoomStatus |->
        CASE s = "available" -> "Available"
          [] s = "occupied" -> "Occupied"
          [] s = "maintenance" -> "Maintenance"
          [] s = "cleaning" -> "Cleaning"]

\* toLocaleDateString("en-US", {month: "short", day: "numeric"}) of the key's
\* local midnight: the month and the day of the month, the year left out
\* (an empty key gives Invalid Date, here <<0, 0>>)
MonthDay(key) == <<(key \div 100) % 100, key % 100>>

formatRange(start, end) ==
    IF start = end THEN <<MonthDay(start)>> ELSE <<MonthDay(start), MonthDay(end)>>

RECURSIVE findOverlapFrom(_, _, _, _, _)
\* for (const entry of localSchedule): the first entry, not excluded, whose
\* range intersects [start, end]
findOverlapFrom(list, i, start, end, excludeIds) ==
    IF i > Len(list) THEN null
    ELSE IF list[i].id \in excludeIds THEN findOverlapFrom(list, i + 1, start, end, excludeIds)
    ELSE IF start <= list[i].endDate /\ list[i].startDate <= end THEN list[i]
    ELSE findOverlapFrom(list, i + 1, start, end, excludeIds)

findOverlap_Strict(start, end, excludeIds) ==
    LET strict == SelectSeq(localSchedule,
                            LAMBDA e : e.id \notin excludeIds
                                       /\ start < e.endDate /\ e.startDate < end)
    IN  IF strict = <<>> THEN null ELSE Head(strict)

findOverlap_Last(start, end, excludeIds) ==
    LET hits == SelectSeq(localSchedule,
                          LAMBDA e : e.id \notin excludeIds
                                     /\ start <= e.endDate /\ e.startDate <= end)
    IN  IF hits = <<>> THEN null ELSE hits[Len(hits)]

findOverlap_NoExclude(start, end, excludeIds) ==
    findOverlapFrom(localSchedule, 1, start, end, {})

findOverlap(start, end, excludeIds) ==
    findOverlapFrom(localSchedule, 1, start, end, excludeIds)

\* { id: generateId(), status, startDate, endDate,
\*   ...(status === "occupied" ? { bookedBy: trimmed } : {}) }
NewEntry(status, start, end, trimmedBooker) ==
    IF status = "occupied"
    THEN [id |-> nextId + 1, status |-> status, startDate |-> start, endDate |-> end,
          bookedBy |-> trimmedBooker]
    ELSE [id |-> nextId + 1, status |-> status, startDate |-> start, endDate |-> end]

\* setLocalSchedule(entries); onUpdateSchedule?.(room.number, entries); setConfirmMsg(msg)
commitSchedule(entries, msg) ==
    /\ localSchedule' = entries
    /\ updateCall' = entries
    /\ confirmMsg' = msg

\* a handler returning before it reaches commitSchedule
NoCommit ==
    /\ updateCall' = null
    /\ UNCHANGED <<localSchedule, confirmMsg, nextId>>

handleSetDayStatus(selectedDateRaw, status, dayBookerName) ==
    /\ lastOp' = [name |-> "setDayStatus", date |-> selectedDateRaw, status |-> status,
                  booker |-> dayBookerName, before |-> localSchedule]
    /\ UNCHANGED <<rangeOverlapError, rangeBookingError>>
    /\ IF selectedDateRaw = 0    \* if (!selectedDateRaw) return: undefined or ""
       THEN NoCommit /\ UNCHANGED <<dayOverlapError, dayBookingError>>
       ELSE LET trimmedDayBooker == trim(dayBookerName)
                replacedIds ==
                    {localSchedule[j].id : j \in
                        {i \in DOMAIN localSchedule :
                            /\ localSchedule[i].startDate = selectedDateRaw
                            /\ localSchedule[i].endDate = selectedDateRaw}}
                overlap == findOverlap(selectedDateRaw, selectedDateRaw, replacedIds)
                filtered == SelectSeq(localSchedule, LAMBDA e : e.id \notin replacedIds)
            IN  IF status = "occupied" /\ Len(trimmedDayBooker) = 0
                THEN /\ dayOverlapError' = null
                     /\ dayBookingError' =
                          [text |-> "Please enter the booker name before setting Occupied."]
                     /\ NoCommit
                ELSE IF overlap # null
                THEN /\ dayOverlapError' =
                          [text |-> "This day conflicts with an existing booking",
                           status |-> statusLabel[overlap.status],
                           rangeLabel |-> formatRange(overlap.startDate, overlap.endDate)]
                     /\ dayBookingError' = null
                     /\ NoCommit
                ELSE /\ dayOverlapError' = null
                     /\ dayBookingError' = null
                     /\ nextId < MaxIds
                     /\ nextId' = nextId + 1
                     /\ commitSchedule(
                            Append(filtered,
                                   NewEntry(status, selectedDateRaw, selectedDateRaw,
                                            trimmedDayBooker)),
                            [text |-> "Set to", status |-> statusLabel[status]])

\* rangeStart, rangeEnd, rangeStatus and rangeBookerName are the form's
\* fields; the handler's trailing reset of the form changes no other state
handleAddRange(rangeStart, rangeEnd, rangeStatus, rangeBookerName) ==
    /\ lastOp' = [name |-> "addRange", start |-> rangeStart, end |-> rangeEnd,
                  status |-> rangeStatus, booker |-> rangeBookerName,
                  before |-> localSchedule]
    /\ UNCHANGED <<dayOverlapError, dayBookingError>>
    /\ IF rangeStart > rangeEnd
       THEN NoCommit /\ UNCHANGED <<rangeOverlapError, rangeBookingError>>
       ELSE LET trimmedRangeBooker == trim(rangeBookerName)
                overlap == findOverlap(rangeStart, rangeEnd, {})
            IN  IF rangeStatus = "occupied" /\ Len(trimmedRangeBooker) = 0
                THEN /\ rangeOverlapError' = null
                     /\ rangeBookingError' =
                          [text |-> "Please enter the booker name for occupied schedules."]
                     /\ NoCommit
                ELSE IF overlap # null
                THEN /\ rangeOverlapError' =
                          [text |-> "This range conflicts with an existing booking",
                           status |-> statusLabel[overlap.status],
                           rangeLabel |-> formatRange(overlap.startDate, overlap.endDate)]
                     /\ rangeBookingError' = null
                     /\ NoCommit
                ELSE /\ rangeOverlapError' = null
                     /\ rangeBookingError' = null
                     /\ nextId < MaxIds
                     /\ nextId' = nextId + 1
                     /\ commitSchedule(
                            Append(localSchedule,
                                   NewEntry(rangeStatus, rangeStart, rangeEnd,
                                            trimmedRangeBooker)),
                            [text |-> "Range added"])

handleRemoveEntry(id) ==
    /\ lastOp' = [name |-> "removeEntry", id |-> id, before |-> localSchedule]
    /\ commitSchedule(SelectSeq(localSchedule, LAMBDA e : e.id # id),
                      [text |-> "Entry removed"])
    /\ UNCHANGED <<dayOverlapError, dayBookingError, rangeOverlapError, rangeBookingError,
                   nextId>>

\* the useEffect timers: setTimeout(() => setX(null), 2000 or 3000)
clearMessage(which) ==
    /\ lastOp' = [name |-> "none"]
    /\ updateCall' = null
    /\ confirmMsg' = IF which = "confirmMsg" THEN null ELSE confirmMsg
    /\ dayOverlapError' = IF which = "dayOverlapError" THEN null ELSE dayOverlapError
    /\ dayBookingError' = IF which = "dayBookingError" THEN null ELSE dayBookingError
    /\ rangeOverlapError' = IF which = "rangeOverlapError" THEN null ELSE rangeOverlapError
    /\ rangeBookingError' = IF which = "rangeBookingError" THEN null ELSE rangeBookingError
    /\ UNCHANGED <<localSchedule, nextId>>

\* the keys the date inputs and a clicked timeline cell hold
EditorKeys == {formatDateInput(d) : d \in 0..MaxEditorDay}

\* what the booker-name inputs can hold
BookerInputs == {<<>>, <<" ">>, <<" ", "J", " ">>}

EditorInit ==
    /\ localSchedule = <<>>
    /\ dayOverlapError = null
    /\ dayBookingError = null
    /\ rangeOverlapError = null
    /\ rangeBookingError = null
    /\ confirmMsg = null
    /\ nextId = 0
    /\ updateCall = null
    /\ lastOp = [name |-> "none"]

----------------------------------------------------------------------------
(* context/AppContext: the audit diff *)

\* the keys of new Map(entries.map((entry) => [entry.id, entry]))
idsOf(entries) == {entries[i].id : i \in DOMAIN entries}

logEvent(roomNumber, action, entry, createdAt) ==
    [roomNumber |-> roomNumber,
     action |-> action,
     status |-> entry.status,
     startDate |-> entry.startDate,
     endDate |-> entry.endDate,
     createdAt |-> createdAt]

RECURSIVE pushMissing(_, _, _, _, _, _, _)
\* entries.forEach from index i on: push one event for every entry whose id
\* the other list's map does not have
pushMissing(payload, entries, i, otherIds, roomNumber, action, createdAt) ==
    IF i > Len(entries) THEN payload
    ELSE pushMissing(IF entries[i].id \in otherIds
                     THEN payload
                     ELSE Append(payload, logEvent(roomNumber, action, entries[i], createdAt)),
                     entries, i + 1, otherIds, roomNumber, action, createdAt)

\* the maps keyed by the whole entry instead of its id
buildScheduleLogPayload_ByContent(roomNumber, previousEntries, nextEntries, createdAt) ==
    LET keyed(list) == [i \in DOMAIN list |->
                           [list[i] EXCEPT !.id = <<list[i].id, list[i].status,
                                                    list[i].startDate, list[i].endDate>>]]
        added == pushMissing(<<>>, keyed(nextEntries), 1, idsOf(keyed(previousEntries)),
                             roomNumber, "schedule_added", createdAt)
    IN  pushMissing(added, keyed(previousEntries), 1, idsOf(keyed(nextEntries)),
                    roomNumber, "schedule_removed", createdAt)

\* createdAt is the instant new Date() returns inside the function
buildScheduleLogPayload(roomNumber, previousEntries, nextEntries, createdAt) ==
    LET previousById == idsOf(previousEntries)
        nextById == idsOf(nextEntries)
        added == pushMissing(<<>>, nextEntries, 1, previousById,
                             roomNumber, "schedule_added", createdAt)
    IN  pushMissing(added, previousEntries, 1, nextById,
                    roomNumber, "schedule_removed", createdAt)

----------------------------------------------------------------------------
(* api/schedules route *)
(* A JSON value of a request body is held with its type: [number |-> n],   *)
(* [string |-> s], [array |-> <<...>>].  The key String(roomNumber) of the *)
(* schedules map is held as the number.                                     *)

allowedStatuses == {"available", "occupied", "maintenance", "cleaning"}

MaxBookerLen == 120

Digits == {"0", "1", "2", "3", "4", "5", "6", "7", "8", "9"}

\* /^\d{4}-\d{2}-\d{2}$/ : the strings that match are the ones held as a
\* number YYYYMMDD, every other string is held as 0
isDateInput(value) == value # 0

isBookerName(value) ==
    /\ Len(trim(value)) > 0
    /\ Len(trim(value)) <= MaxBookerLen

\* /^\d{2}:\d{2}$/
isCheckoutTime(value) ==
    /\ Len(value) = 5
    /\ value[3] = ":"
    /\ \A i \in {1, 2, 4, 5} : value[i] \in Digits

isStatusEntry(entry) ==
    /\ "id" \in DOMAIN entry
    /\ entry.status \in allowedStatuses
    /\ isDateInput(entry.startDate)
    /\ isDateInput(entry.endDate)
    /\ ("bookedBy" \notin DOMAIN entry \/ isBookerName(entry.bookedBy))
    /\ ("checkoutTime" \notin DOMAIN entry \/ isCheckoutTime(entry.checkoutTime))

sanitize_NoTrim(entry) == entry

sanitize(entry) ==
    LET trimmedBooker == IF HasBookedBy(entry) THEN trim(entry.bookedBy) ELSE <<>>
    IN  IF entry.status = "occupied" /\ Len(trimmedBooker) > 0
        THEN [entry EXCEPT !.bookedBy = trimmedBooker]
        ELSE entry

\* a comparator that answers "before" for equal start dates
entryBefore_TiesFirst(a, b) == a.startDate <= b.startDate

\* the comparator of normalizeEntries: < 0 when a sorts before b
entryBefore(a, b) ==
    IF a.startDate # b.startDate THEN a.startDate < b.startDate ELSE a.id < b.id

RECURSIVE insertSorted(_, _, _)
\* places entry behind the last element of sorted that does not sort after it
insertSorted(sorted, entry, i) ==
    IF i = 0 \/ ~entryBefore(entry, sorted[i])
    THEN SubSeq(sorted, 1, i) \o <<entry>> \o SubSeq(sorted, i + 1, Len(sorted))
    ELSE insertSorted(sorted, entry, i - 1)

RECURSIVE sortEntries(_, _, _)
\* Array.prototype.sort is stable: equal elements keep their order
sortEntries(sorted, entries, i) ==
    IF i > Len(entries) THEN sorted
    ELSE sortEntries(insertSorted(sorted, entries[i], Len(sorted)), entries, i + 1)

normalizeEntries(entries) ==
    LET sanitized == [i \in DOMAIN entries |-> sanitize(entries[i])]
    IN  sortEntries(<<>>, sanitized, 1)

\* the body validation of PATCH that answers 400 without touching the file
patchError(body) ==
    IF "number" \notin DOMAIN body.roomNumber THEN "Invalid room number."
    ELSE IF "array" \notin DOMAIN body.entries THEN "Entries must be an array."
    ELSE IF \E i \in DOMAIN body.entries.array : ~isStatusEntry(body.entries.array[i])
         THEN "Invalid schedule entry payload."
    ELSE "none"

\* readSchedules throws: JSON.parse in readJsonFile on text that is no JSON,
\* readSchedules itself on JSON that is no object
readSchedulesError_EmptyMap(shape) == "none"

readSchedulesError(shape) ==
    IF shape = "unparsable" THEN "SyntaxError"
    ELSE IF shape # "object" THEN "Invalid schedules.json format."
    ELSE "none"

\* readSchedules: every array value of the parsed file, its invalid entries dropped
readSchedules(parsed) ==
    [key \in DOMAIN parsed |-> SelectSeq(parsed[key], isStatusEntry)]

\* delete schedules[key]
deleteKey(map, key) == [k \in DOMAIN map \ {key} |-> map[k]]

\* schedules[key] = nextEntries
setKey(map, key, value) == [k \in DOMAIN map \cup {key} |-> IF k = key THEN value ELSE map[k]]

\* PATCH up to its first await: request.json() and the three checks
PATCH(q, body) ==
    /\ requests[q].pc = "idle"
    /\ requests' = [requests EXCEPT ![q] =
          IF patchError(body) # "none"
          THEN [pc |-> "done", method |-> "PATCH", body |-> body, status |-> 400,
                error |-> patchError(body)]
          ELSE [pc |-> "readSchedules", body |-> body]]
    /\ UNCHANGED <<schedulesFile, fileShape>>

\* readSchedules resolves; PATCH runs on to await writeSchedules(schedules)
patchRead(q) ==
    /\ requests[q].pc = "readSchedules"
    /\ readSchedulesError(fileShape) = "none"
    /\ LET body == requests[q].body
           loaded == readSchedules(schedulesFile)
           key == body.roomNumber.number
           nextEntries == normalizeEntries(body.entries.array)
       IN  requests' = [requests EXCEPT ![q] =
              [pc |-> "writeSchedules", body |-> body, nextEntries |-> nextEntries,
               schedules |-> IF Len(nextEntries) = 0
                             THEN deleteKey(loaded, key)
                             ELSE setKey(loaded, key, nextEntries)]]
    /\ UNCHANGED <<schedulesFile, fileShape>>

\* readSchedules rejects: catch, 500, writeSchedules never called
patchReadFail(q) ==
    /\ requests[q].pc = "readSchedules"
    /\ readSchedulesError(fileShape) # "none"
    /\ requests' = [requests EXCEPT ![q] =
          [pc |-> "done", method |-> "PATCH", body |-> requests[q].body, status |-> 500,
           error |-> "Failed to save schedules."]]
    /\ UNCHANGED <<schedulesFile, fileShape>>

\* writeSchedules resolves: the file holds the map, the response is 200
patchWrite(q) ==
    /\ requests[q].pc = "writeSchedules"
    /\ schedulesFile' = requests[q].schedules
    /\ fileShape' = "object"
    /\ requests' = [requests EXCEPT ![q] =
          [pc |-> "done", method |-> "PATCH", body |-> requests[q].body, status |-> 200,
           roomNumber |-> requests[q].body.roomNumber.number,
           entries |-> requests[q].nextEntries]]

\* writeSchedules rejects (writeJsonFile failed): catch, 500, the file as it was
patchWriteFail(q) ==
    /\ requests[q].pc = "writeSchedules"
    /\ requests' = [requests EXCEPT ![q] =
          [pc |-> "done", method |-> "PATCH", body |-> requests[q].body, status |-> 500,
           error |-> "Failed to save schedules."]]
    /\ UNCHANGED <<schedulesFile, fileShape>>

\* the response is delivered and the connection serves its next request
patchClose(q) ==
    /\ requests[q].pc = "done"
    /\ requests' = [requests EXCEPT ![q] = [pc |-> "idle"]]
    /\ UNCHANGED <<schedulesFile, fileShape>>

\* GET without a roomNumber parameter: the whole map, or 500 when
\* readSchedules rejects
GET(q) ==
    /\ requests[q].pc = "idle"
    /\ requests' = [requests EXCEPT ![q] =
          IF readSchedulesError(fileShape) # "none"
          THEN [pc |-> "done", method |-> "GET", status |-> 500,
                error |-> "Failed to load schedules."]
          ELSE [pc |-> "done", method |-> "GET", status |-> 200,
                schedules |-> readSchedules(schedulesFile)]]
    /\ UNCHANGED <<schedulesFile, fileShape>>

ServerInit ==
    /\ schedulesFile = <<>>
    /\ fileShape = "object"
    /\ requests = [q \in 1..MaxReq |-> [pc |-> "idle"]]

----------------------------------------------------------------------------
(* lib/server/jsonFileStore: readJsonFile and writeJsonFile on one filePath *)
(* Each await is a step of its own: the file operation it waits for runs    *)
(* in that step, and the code behind it in the next step of the same call.  *)
(* A file is [text, mtimeMs]; its size is the length of the text.           *)

filePath == <<"schedules.json">>

\* `${filePath}.${process.pid}.${Date.now()}.${random}.tmp`, one per write
tempPath(w) == <<"schedules.json", w>>

\* JSON.stringify(data, null, 2): the data between its braces
stringify(data) == <<"{">> \o data \o <<"}">>

serialized(data) == stringify(data) \o <<"\n">>

RECURSIVE stripEnd(_)
\* JSON.parse skips the white space behind the value
stripEnd(raw) ==
    IF raw # <<>> /\ raw[Len(raw)] \in {"\n", " "}
    THEN stripEnd(SubSeq(raw, 1, Len(raw) - 1))
    ELSE raw

\* JSON.parse(raw) returns; it throws on a text that is no complete value
canParse(raw) ==
    LET t == stripEnd(raw)
    IN  Len(t) >= 2 /\ t[1] = "{" /\ t[Len(t)] = "}"

JSONparse(raw) == SubSeq(stripEnd(raw), 2, Len(stripEnd(raw)) - 1)

\* fs.stat(path): the fields the store reads
stat(path) == [mtimeMs |-> fs[path].mtimeMs, size |-> Len(fs[path].text)]

cacheEntry(fileStat, data) ==
    [mtimeMs |-> fileStat.mtimeMs, size |-> fileStat.size, data |-> data]

settled(w) == writes[w].pc \in {"done", "failed"}

\* the path writeFile writes: the target itself
writeTarget_InPlace(w) == filePath

\* the path writeFile writes
writeTarget(w) == tempPath(w)

\* writeQueue.get(filePath) ?? Promise.resolve(): 0 is the resolved promise
prevWrite == writeQueue

\* the write runs at once, chained on nothing
prevSettled_NoQueue(w) == TRUE

\* prev is the promise of the write issued before, not its caught copy: the
\* callback runs only when that write resolved
prevSettled_NoCatch(w) ==
    IF writes[w].prev = 0 THEN TRUE ELSE writes[writes[w].prev].pc = "done"

\* prev.then(...): the callback runs once prev, the caught promise of the
\* write issued before, has settled
prevSettled(w) == IF writes[w].prev = 0 THEN TRUE ELSE settled(writes[w].prev)

\* what a read that starts now is to return: the data of the write issued
\* last, if that write has completed successfully
expected ==
    IF writeQueue # 0 /\ writes[writeQueue].pc = "done"
    THEN [data |-> writes[writeQueue].data]
    ELSE null

\* writeJsonFile(filePath, data) up to `await nextWrite`: the write is chained
\* behind prev and becomes the queue's tail
writeJsonFile(w, data) ==
    /\ writes[w].pc = "idle"
    /\ \A v \in 1..(w - 1) : writes[v].pc # "idle"
    /\ writes' = [writes EXCEPT ![w] =
          [pc |-> "queued", data |-> data, prev |-> prevWrite,
           fileStat |-> null, before |-> <<>>]]
    /\ writeQueue' = w
    /\ reads' = [r \in DOMAIN reads |->
          IF reads[r].pc \in {"idle", "done", "failed"} THEN reads[r]
          ELSE [reads[r] EXCEPT !.expect = null]]
    /\ UNCHANGED <<fs, now, jsonCache>>

\* prev has settled; writeFile opens its path, which truncates it
writeFileOpen(w) ==
    /\ writes[w].pc = "queued"
    /\ prevSettled(w)
    /\ fs' = [p \in DOMAIN fs \cup {writeTarget(w)} |->
                IF p = writeTarget(w) THEN [text |-> <<>>, mtimeMs |-> now] ELSE fs[p]]
    /\ writes' = [writes EXCEPT ![w].pc = "writeFile", ![w].before = fs[filePath].text]
    /\ UNCHANGED <<now, jsonCache, writeQueue, reads>>

\* writeFile resolves: the path holds the serialized data
writeFileDone(w) ==
    /\ writes[w].pc = "writeFile"
    /\ fs' = [fs EXCEPT ![writeTarget(w)] =
                [text |-> serialized(writes[w].data), mtimeMs |-> now]]
    /\ writes' = [writes EXCEPT ![w].pc = "rename"]
    /\ UNCHANGED <<now, jsonCache, writeQueue, reads>>

\* writeFile rejects with the path opened and the data not written
writeFileFail(w) ==
    /\ writes[w].pc = "writeFile"
    /\ writes' = [writes EXCEPT ![w].pc = "failed"]
    /\ UNCHANGED <<fs, now, jsonCache, writeQueue, reads>>

\* rename(tempPath, filePath) resolves: filePath is the written file
renameDone(w) ==
    /\ writes[w].pc = "rename"
    /\ fs' = [p \in (DOMAIN fs \ {writeTarget(w)}) \cup {filePath} |->
                IF p = filePath THEN fs[writeTarget(w)] ELSE fs[p]]
    /\ writes' = [writes EXCEPT ![w].pc = "stat"]
    /\ UNCHANGED <<now, jsonCache, writeQueue, reads>>

\* rename rejects: unlink(tempPath), then the error is thrown on
renameFail(w) ==
    /\ writes[w].pc = "rename"
    /\ fs' = [p \in DOMAIN fs \ {tempPath(w)} |-> fs[p]]
    /\ writes' = [writes EXCEPT ![w].pc = "failed"]
    /\ UNCHANGED <<now, jsonCache, writeQueue, reads>>

\* stat(filePath) of the write resolves; the file is there, the rename done
writeStat(w) ==
    /\ writes[w].pc = "stat"
    /\ writes' = [writes EXCEPT ![w].pc = "cacheSet", ![w].fileStat = stat(filePath)]
    /\ UNCHANGED <<fs, now, jsonCache, writeQueue, reads>>

\* jsonCache.set(filePath, {mtimeMs, size, data}); nextWrite resolves
writeCacheSet(w) ==
    /\ writes[w].pc = "cacheSet"
    /\ jsonCache' = cacheEntry(writes[w].fileStat, writes[w].data)
    /\ writes' = [writes EXCEPT ![w].pc = "done"]
    /\ UNCHANGED <<fs, now, writeQueue, reads>>

\* readJsonFile(filePath) is called
readJsonFile(r) ==
    /\ reads[r].pc = "idle"
    /\ \A q \in 1..(r - 1) : reads[q].pc # "idle"
    /\ reads' = [reads EXCEPT ![r].pc = "stat", ![r].expect = expected]
    /\ UNCHANGED <<fs, now, jsonCache, writeQueue, writes>>

\* stat(filePath) of the read resolves, or rejects when the file is gone
readStat(r) ==
    /\ reads[r].pc = "stat"
    /\ reads' = IF filePath \in DOMAIN fs
                THEN [reads EXCEPT ![r].pc = "check", ![r].fileStat = stat(filePath)]
                ELSE [reads EXCEPT ![r].pc = "failed"]
    /\ UNCHANGED <<fs, now, jsonCache, writeQueue, writes>>

\* the cache lookup: a hit returns cached.data, a miss calls readFile
readCheck(r) ==
    /\ reads[r].pc = "check"
    /\ reads' = IF /\ jsonCache # null
                   /\ jsonCache.mtimeMs = reads[r].fileStat.mtimeMs
                   /\ jsonCache.size = reads[r].fileStat.size
                THEN [reads EXCEPT ![r].pc = "done", ![r].result = jsonCache.data]
                ELSE [reads EXCEPT ![r].pc = "readFile"]
    /\ UNCHANGED <<fs, now, jsonCache, writeQueue, writes>>

\* readFile(filePath, "utf-8") resolves with the text the file holds
readFile(r) ==
    /\ reads[r].pc = "readFile"
    /\ reads' = IF filePath \in DOMAIN fs
                THEN [reads EXCEPT ![r].pc = "parse", ![r].raw = fs[filePath].text]
                ELSE [reads EXCEPT ![r].pc = "failed"]
    /\ UNCHANGED <<fs, now, jsonCache, writeQueue, writes>>

\* JSON.parse(raw), jsonCache.set under the stat taken first, return parsed
readParse(r) ==
    /\ reads[r].pc = "parse"
    /\ IF canParse(reads[r].raw)
       THEN /\ jsonCache' = cacheEntry(reads[r].fileStat, JSONparse(reads[r].raw))
            /\ reads' = [reads EXCEPT ![r].pc = "done",
                                      ![r].result = JSONparse(reads[r].raw)]
       ELSE /\ reads' = [reads EXCEPT ![r].pc = "failed"]
            /\ UNCHANGED jsonCache
    /\ UNCHANGED <<fs, now, writeQueue, writes>>

\* the file system's clock moves on to its next timestamp
tick ==
    /\ now < 1 + MaxClock
    /\ now' = now + 1
    /\ UNCHANGED <<fs, jsonCache, writeQueue, writes, reads>>

\* what the file holds when the process starts
InitialData == <<"a">>

\* what the callers write: two values of one size and a longer one
Datas == {<<"a">>, <<"b">>, <<"c", "c">>}

StoreInit ==
    /\ fs = (filePath :> [text |-> serialized(InitialData), mtimeMs |-> 0])
    /\ now = 1
    /\ jsonCache = null
    /\ writeQueue = 0
    /\ writes = [w \in 1..MaxWrites |->
                   [pc |-> "idle", data |-> <<>>, prev |-> 0, fileStat |-> null,
                    before |-> <<>>]]
    /\ reads = [r \in 1..MaxReaders |->
                  [pc |-> "idle", fileStat |-> null, raw |-> <<>>, result |-> <<>>,
                   expect |-> null]]

----------------------------------------------------------------------------
(* The state of each part while a specification exercises another part *)

ResolveIdle ==
    /\ huts = <<[number |-> 101, status |-> "available"]>>
    /\ schedules = <<>>
    /\ today = 0
    /\ resolved = null
    /\ timeline = null

DiffIdle ==
    /\ diffInput = [roomNumber |-> 101, previousEntries |-> <<>>, nextEntries |-> <<>>,
                    called |-> FALSE]
    /\ logPayload = <<>>

ServerIdle == ServerInit

AppIdle ==
    /\ toast = null
    /\ memoDeps = <<>>
    /\ updates = <<>>
    /\ activityLogs = <<>>
    /\ scheduleLoad = "pending"

StoreIdle == StoreInit

WindowIdle ==
    /\ zone = Manila
    /\ windowMode = "seven_days"
    /\ sevenDayOffset = 0
    /\ monthOffset = 0

LogsIdle ==
    /\ archivedLogs = <<>>
    /\ logRequests = <<>>

Intersect(a, b) == a.startDate <= b.endDate /\ b.startDate <= a.endDate

OverlapFree(list) ==
    \A i \in DOMAIN list : \A j \in DOMAIN list : i # j => ~Intersect(list[i], list[j])

----------------------------------------------------------------------------
(* Resolution and timeline: specification SpecResolve *)

Rooms == {101, 102}

\* the (status, startDate, endDate) an entry drawn as an input may carry;
\* ranges are drawn in either order, the resolution code reading both ends
EntryShapes ==
    {[status |-> s, startDate |-> a, endDate |-> b] :
        s \in RoomStatus, a \in DateKeys, b \in DateKeys}

MkEntry(i, shape) ==
    [id |-> i, status |-> shape.status,
     startDate |-> shape.startDate, endDate |-> shape.endDate]

EntryLists ==
    {[i \in DOMAIN f |-> MkEntry(i, f[i])] : f \in SeqsUpTo(EntryShapes, MaxLen)}

ResolveInit ==
    /\ \E s \in RoomStatus :
         huts = <<[number |-> 101, status |-> s],
                  [number |-> 102, status |-> "maintenance"]>>
    /\ \E list \in EntryLists :
         schedules = IF list = <<>> THEN <<>> ELSE (101 :> list)
    /\ today \in Days
    /\ resolved = null
    /\ timeline = null

roomSchedule(n) == IF n \in DOMAIN schedules THEN schedules[n] ELSE <<>>

\* a caller resolving one day of one room (page.tsx, Timeline.tsx); each
\* behaviour applies one function once to the inputs Init drew
Resolve(r, date) ==
    /\ resolved = null /\ timeline = null
    /\ resolved' = [room |-> huts[r].number,
                    date |-> date,
                    defaultStatus |-> huts[r].status,
                    status |-> getStatusForDate(roomSchedule(huts[r].number), date,
                                                huts[r].status),
                    entry |-> getScheduleEntryForDate(roomSchedule(huts[r].number), date)]
    /\ timeline' = null
    /\ UNCHANGED <<huts, schedules, today>>

\* AppProvider: timeline = buildTimeline(huts, spanDays, schedules, startOffset)
Build(days, startDayOffset) ==
    /\ resolved = null /\ timeline = null
    /\ timeline' = [days |-> days, startDayOffset |-> startDayOffset,
                    rows |-> buildTimeline(huts, days, schedules, startDayOffset)]
    /\ resolved' = null
    /\ UNCHANGED <<huts, schedules, today>>

ResolveDay ==
    /\ \E r \in DOMAIN huts, date \in (0 - MaxOffset)..(MaxDay + MaxOffset) : Resolve(r, date)
    /\ UNCHANGED <<editorVars, diffVars, serverVars, storeVars, appVars, windowVars, logVars>>

BuildTimeline ==
    /\ \E days \in 0..MaxWindow, off \in (0 - MaxOffset)..MaxOffset : Build(days, off)
    /\ UNCHANGED <<editorVars, diffVars, serverVars, storeVars, appVars, windowVars, logVars>>

SpecResolveInit == ResolveInit /\ EditorInit /\ DiffIdle /\ ServerIdle /\ StoreIdle /\ AppIdle
                   /\ WindowIdle /\ LogsIdle

SpecResolveNext == ResolveDay \/ BuildTimeline

SpecResolve == SpecResolveInit /\ [][SpecResolveNext]_vars

\* --- C5 ---------------------------------------------------------------
Contains(entry, key) == entry.startDate <= key /\ key <= entry.endDate

Matching(list, key) == {i \in DOMAIN list : Contains(list[i], key)}

Highest(S) == CHOOSE i \in S : \A j \in S : j <= i

\* C5: resolveEntry returns the entry with the highest list index whose
\* [startDate, endDate] contains the day's date key, null if there is none;
\* resolveStatus returns that entry's status, or the default status when
\* resolveEntry returns null.
C5_ResolveHighestMatch ==
    resolved # null =>
        LET list == roomSchedule(resolved.room)
            m == Matching(list, formatDateInput(resolved.date))
        IN  /\ (m = {}) => (resolved.entry = null /\ resolved.status = resolved.defaultStatus)
            /\ (m # {}) => (resolved.entry = list[Highest(m)]
                            /\ resolved.status = list[Highest(m)].status)

\* two entries of different status contain the resolved day, and the later wins
C5_Witness ==
    /\ resolved # null
    /\ resolved.entry # null
    /\ \E i \in DOMAIN roomSchedule(resolved.room) :
         /\ i < resolved.entry.id
         /\ Contains(roomSchedule(resolved.room)[i], formatDateInput(resolved.date))
         /\ roomSchedule(resolved.room)[i].status # resolved.status

\* --- C6 ---------------------------------------------------------------
\* C6: the timeline built for a room is an array of exactly windowDays
\* statuses whose element i is resolveStatus(the room's entries,
\* today + offset + i, the room's default status); a room with no entries
\* gets its default status at every index.
C6_TimelineWindow ==
    timeline # null =>
        \A r \in DOMAIN huts :
            LET n == huts[r].number
                row == timeline.rows[n]
            IN  /\ n \in DOMAIN timeline.rows
                /\ Len(row) = timeline.days
                /\ \A i \in 0..(timeline.days - 1) :
                     row[i + 1] = getStatusForDate(roomSchedule(n),
                                                   today + timeline.startDayOffset + i,
                                                   huts[r].status)
                /\ roomSchedule(n) = <<>> =>
                     \A i \in 1..timeline.days : row[i] = huts[r].status

\* a window with a negative offset that crosses the month boundary and
\* shows a scheduled status differing from the room's default
C6_Witness ==
    /\ timeline # null
    /\ timeline.startDayOffset < 0
    /\ timeline.days = MaxWindow
    /\ DateFields(today + timeline.startDayOffset)[2] # DateFields(today)[2]
    /\ \E i \in 1..timeline.days :
         /\ timeline.rows[101][i] # huts[1].status
         /\ timeline.rows[101][1] = huts[1].status

\* --- C17 --------------------------------------------------------------
\* the orderings of list
Orderings(list) ==
    {[i \in DOMAIN list |-> list[f[i]]] :
        f \in {g \in [DOMAIN list -> DOMAIN list] :
                  \A i \in DOMAIN list : \E j \in DOMAIN list : g[j] = i}}

\* C17: for every day, default status and entry list that satisfies the
\* no-overlap invariant, resolveStatus returns the same status for every
\* permutation of the list.
C17_OrderIndependent ==
    (resolved # null /\ OverlapFree(roomSchedule(resolved.room))) =>
        \A p \in Orderings(roomSchedule(resolved.room)) :
            getStatusForDate(p, resolved.date, resolved.defaultStatus) = resolved.status

\* two entries of different status on different days, the day resolved
\* lying in the first of the list
C17_Witness ==
    /\ resolved # null
    /\ OverlapFree(roomSchedule(resolved.room))
    /\ Len(roomSchedule(resolved.room)) = 2
    /\ Contains(roomSchedule(resolved.room)[1], formatDateInput(resolved.date))
    /\ roomSchedule(resolved.room)[2].startDate <= roomSchedule(resolved.room)[2].endDate
    /\ roomSchedule(resolved.room)[2].status # roomSchedule(resolved.room)[1].status
    /\ resolved.status # resolved.defaultStatus

----------------------------------------------------------------------------
(* The schedule editor: specification SpecEditor *)

OthersOfEditor == <<resolveVars, diffVars, serverVars, storeVars, appVars, windowVars, logVars>>

SetDayStatus ==
    /\ \E d \in EditorKeys \cup {0}, s \in RoomStatus, b \in BookerInputs :
            handleSetDayStatus(d, s, b)    \* 0: the modal was not opened from a cell
    /\ UNCHANGED OthersOfEditor

AddRange ==
    /\ \E a \in EditorKeys, b \in EditorKeys, s \in RoomStatus, n \in BookerInputs :
            handleAddRange(a, b, s, n)
    /\ UNCHANGED OthersOfEditor

RemoveEntry ==
    /\ \E i \in DOMAIN localSchedule : handleRemoveEntry(localSchedule[i].id)
    /\ UNCHANGED OthersOfEditor

ClearMessage ==
    /\ \E which \in {"confirmMsg", "dayOverlapError", "dayBookingError",
                     "rangeOverlapError", "rangeBookingError"} :
            /\ \/ which = "confirmMsg" /\ confirmMsg # null
               \/ which = "dayOverlapError" /\ dayOverlapError # null
               \/ which = "dayBookingError" /\ dayBookingError # null
               \/ which = "rangeOverlapError" /\ rangeOverlapError # null
               \/ which = "rangeBookingError" /\ rangeBookingError # null
            /\ clearMessage(which)
    /\ UNCHANGED OthersOfEditor

SpecEditorInit == EditorInit /\ ResolveIdle /\ DiffIdle /\ ServerIdle /\ StoreIdle /\ AppIdle
                  /\ WindowIdle /\ LogsIdle

SpecEditorNext == SetDayStatus \/ AddRange \/ RemoveEntry \/ ClearMessage

SpecEditor == SpecEditorInit /\ [][SpecEditorNext]_vars

\* --- C1 ---------------------------------------------------------------
\* C1: starting from an empty list, after any sequence of addRange, set-one-day
\* and removeEntry operations no two entries of the room's in-memory list
\* have intersecting inclusive ranges.
C1_EditorNoOverlap == OverlapFree(localSchedule)

\* two entries on adjacent days coexist, one accepted right next to the other
C1_Witness ==
    \E i \in DOMAIN localSchedule : \E j \in DOMAIN localSchedule :
        \E d \in 0..(MaxEditorDay - 1) :
            /\ localSchedule[i].endDate = formatDateInput(d)
            /\ localSchedule[j].startDate = formatDateInput(d + 1)

\* --- C3 ---------------------------------------------------------------
Hits(list, start, end) ==
    {i \in DOMAIN list : list[i].startDate <= end /\ start <= list[i].endDate}

Lowest(S) == CHOOSE i \in S : \A j \in S : i <= j

AllBlank(name) == \A i \in DOMAIN name : name[i] = " "

\* C3: addRange with start <= end and an acceptable booker name is accepted
\* if and only if no existing entry intersects [start, end].  Accepted: one
\* new entry is appended, the others unchanged.  Rejected: the list is
\* unchanged, no save is issued, and the conflict reported names the status
\* and range of the first intersecting entry in list order.
C3_AddRange ==
    (/\ lastOp.name = "addRange"
     /\ lastOp.start <= lastOp.end
     /\ (lastOp.status = "occupied" => ~AllBlank(lastOp.booker)))
    => LET hits == Hits(lastOp.before, lastOp.start, lastOp.end)
           n == Len(lastOp.before)
       IN  IF hits = {}
           THEN /\ Len(localSchedule) = n + 1
                /\ SubSeq(localSchedule, 1, n) = lastOp.before
                /\ localSchedule[n + 1].startDate = lastOp.start
                /\ localSchedule[n + 1].endDate = lastOp.end
                /\ localSchedule[n + 1].status = lastOp.status
                /\ \A i \in 1..n : lastOp.before[i].id # localSchedule[n + 1].id
                /\ updateCall = localSchedule
                /\ rangeOverlapError = null
           ELSE /\ localSchedule = lastOp.before
                /\ updateCall = null
                /\ rangeOverlapError # null
                /\ rangeOverlapError.status = statusLabel[lastOp.before[Lowest(hits)].status]
                /\ rangeOverlapError.rangeLabel =
                       formatRange(lastOp.before[Lowest(hits)].startDate,
                                   lastOp.before[Lowest(hits)].endDate)

\* a range rejected that intersects two entries of different status: the
\* one named is the first of the list
C3_Witness ==
    /\ lastOp.name = "addRange"
    /\ rangeOverlapError # null
    /\ Cardinality(Hits(lastOp.before, lastOp.start, lastOp.end)) = 2
    /\ lastOp.before[1].status # lastOp.before[2].status
    /\ lastOp.before[1].startDate > lastOp.before[2].startDate

\* --- C4 ---------------------------------------------------------------
\* C4: in the single-day and in the range flow an operation with status
\* occupied whose booker name is empty after trimming is rejected with the
\* booking-name error, the list unchanged and no save issued; an operation
\* with another status is not rejected for a missing name.
C4_BookerRequired ==
    /\ (lastOp.name = "addRange" /\ lastOp.start <= lastOp.end) =>
          IF lastOp.status = "occupied" /\ AllBlank(lastOp.booker)
          THEN /\ rangeBookingError # null
               /\ localSchedule = lastOp.before
               /\ updateCall = null
          ELSE rangeBookingError = null
    /\ (lastOp.name = "setDayStatus" /\ lastOp.date # 0) =>
          IF lastOp.status = "occupied" /\ AllBlank(lastOp.booker)
          THEN /\ dayBookingError # null
               /\ localSchedule = lastOp.before
               /\ updateCall = null
          ELSE dayBookingError = null

\* a day set to occupied with a name of blanks only is turned down, and the
\* same day set to cleaning with no name has gone through before it
C4_Witness ==
    /\ lastOp.name = "setDayStatus"
    /\ lastOp.status = "occupied"
    /\ lastOp.booker = <<" ">>
    /\ dayBookingError # null
    /\ \E i \in DOMAIN localSchedule :
         /\ localSchedule[i].status = "cleaning"
         /\ localSchedule[i].startDate = lastOp.date

\* --- C19 --------------------------------------------------------------
\* the entries of list whose range is exactly [key, key]
ExactlyOn(list, key) ==
    {i \in DOMAIN list : list[i].startDate = key /\ list[i].endDate = key}

NotExactlyLastDate(e) == ~(e.startDate = lastOp.date /\ e.endDate = lastOp.date)

\* what setting day lastOp.date of the list lastOp.before is to leave behind
SingleDayOutcome ==
    LET before == lastOp.before
        remaining == DOMAIN before \ ExactlyOn(before, lastOp.date)
        hits == {i \in remaining : Contains(before[i], lastOp.date)}
        kept == SelectSeq(before, NotExactlyLastDate)
        n == Len(kept)
    IN  IF hits # {}
        THEN /\ localSchedule = before
             /\ updateCall = null
             /\ dayOverlapError # null
             /\ \E i \in hits :
                   /\ dayOverlapError.status = statusLabel[before[i].status]
                   /\ dayOverlapError.rangeLabel =
                         formatRange(before[i].startDate, before[i].endDate)
        ELSE /\ Len(localSchedule) = n + 1
             /\ SubSeq(localSchedule, 1, n) = kept
             /\ localSchedule[n + 1].startDate = lastOp.date
             /\ localSchedule[n + 1].endDate = lastOp.date
             /\ localSchedule[n + 1].status = lastOp.status
             /\ \A i \in DOMAIN before : before[i].id # localSchedule[n + 1].id
             /\ updateCall = localSchedule
             /\ dayOverlapError = null
             /\ \A d \in Days : \A s \in RoomStatus :
                   formatDateInput(d) = lastOp.date =>
                      getStatusForDate(localSchedule, d, s) = lastOp.status

\* C19 as stated: setting a single day D to a status treats the entries that
\* are exactly [D, D] as replaced; a remaining entry that contains D gets the
\* operation rejected with a conflict naming its status and range, the list
\* unchanged; otherwise the replaced entries are removed, one new entry
\* [D, D] with a fresh id is appended, the others unchanged, and D resolves
\* to the new status.
C19_SetSingleDay_AsStated ==
    (lastOp.name = "setDayStatus" /\ lastOp.date # 0) => SingleDayOutcome

\* C19: the same, for an operation whose booker name is non-empty after
\* trimming when its status is occupied.
C19_SetSingleDay ==
    (/\ lastOp.name = "setDayStatus"
     /\ lastOp.date # 0
     /\ (lastOp.status = "occupied" => ~AllBlank(lastOp.booker)))
    => SingleDayOutcome

\* a day that held a cleaning entry of its own has been set to occupied:
\* the cleaning entry is gone and the booking, under a new id, is the list
C19_Witness ==
    /\ lastOp.name = "setDayStatus"
    /\ lastOp.status = "occupied"
    /\ Len(lastOp.before) = 1
    /\ lastOp.before[1].status = "cleaning"
    /\ ExactlyOn(lastOp.before, lastOp.date) = {1}
    /\ Len(localSchedule) = 1
    /\ localSchedule[1].status = "occupied"
    /\ localSchedule[1].startDate = lastOp.date
    /\ localSchedule[1].id # lastOp.before[1].id

----------------------------------------------------------------------------
(* The audit diff: specification SpecDiff *)

\* what the entries of the two lists carry
DiffShapes ==
    {[status |-> "occupied", startDate |-> formatDateInput(0), endDate |-> formatDateInput(1)],
     [status |-> "cleaning", startDate |-> formatDateInput(1), endDate |-> formatDateInput(1)]}

DiffEntries ==
    {[id |-> i, status |-> shape.status, startDate |-> shape.startDate,
      endDate |-> shape.endDate] : i \in 1..(MaxLen + 1), shape \in DiffShapes}

DiffLists == SeqsUpTo(DiffEntries, MaxLen)

DiffInit ==
    /\ \E r \in Rooms, p \in DiffLists, n \in DiffLists :
         diffInput = [roomNumber |-> r, previousEntries |-> p, nextEntries |-> n,
                      called |-> FALSE]
    /\ logPayload = <<>>

\* handleUpdateSchedule: const logPayload = buildScheduleLogPayload(...)
Diff(createdAt) ==
    /\ ~diffInput.called
    /\ logPayload' = buildScheduleLogPayload(diffInput.roomNumber, diffInput.previousEntries,
                                             diffInput.nextEntries, createdAt)
    /\ diffInput' = [diffInput EXCEPT !.called = TRUE]

BuildLogPayload ==
    /\ \E createdAt \in Days : Diff(createdAt)
    /\ UNCHANGED <<resolveVars, editorVars, serverVars, storeVars, appVars, windowVars, logVars>>

SpecDiffInit == DiffInit /\ ResolveIdle /\ EditorInit /\ ServerIdle /\ StoreIdle /\ AppIdle
                /\ WindowIdle /\ LogsIdle

SpecDiffNext == BuildLogPayload

SpecDiff == SpecDiffInit /\ [][SpecDiffNext]_vars

\* --- C7 ---------------------------------------------------------------
\* the entries of list whose id no entry of other has, in list's order
Unique(list, other) ==
    LET fresh(e) == \A j \in DOMAIN other : other[j].id # e.id
    IN  SelectSeq(list, fresh)

\* C7: the audit diff of (previous, next) is one schedule_added event per
\* entry of next whose id is not in previous, in next's order, followed by
\* one schedule_removed event per entry of previous whose id is not in next,
\* in previous's order, each carrying that entry's status, startDate and
\* endDate; an id present in both lists yields no event, even when the two
\* entries differ in content.
C7_DiffById ==
    diffInput.called =>
        LET added == Unique(diffInput.nextEntries, diffInput.previousEntries)
            removed == Unique(diffInput.previousEntries, diffInput.nextEntries)
        IN  /\ Len(logPayload) = Len(added) + Len(removed)
            /\ \A i \in 1..Len(added) :
                 /\ logPayload[i].action = "schedule_added"
                 /\ logPayload[i].roomNumber = diffInput.roomNumber
                 /\ logPayload[i].status = added[i].status
                 /\ logPayload[i].startDate = added[i].startDate
                 /\ logPayload[i].endDate = added[i].endDate
            /\ \A i \in 1..Len(removed) :
                 /\ logPayload[Len(added) + i].action = "schedule_removed"
                 /\ logPayload[Len(added) + i].roomNumber = diffInput.roomNumber
                 /\ logPayload[Len(added) + i].status = removed[i].status
                 /\ logPayload[Len(added) + i].startDate = removed[i].startDate
                 /\ logPayload[Len(added) + i].endDate = removed[i].endDate

\* an entry kept under its id with changed content next to one added and one
\* removed: two events, the added one first
C7_Witness ==
    /\ diffInput.called
    /\ Len(logPayload) = 2
    /\ logPayload[1].action = "schedule_added"
    /\ logPayload[2].action = "schedule_removed"
    /\ \E i \in DOMAIN diffInput.previousEntries : \E j \in DOMAIN diffInput.nextEntries :
         /\ diffInput.previousEntries[i].id = diffInput.nextEntries[j].id
         /\ diffInput.previousEntries[i] # diffInput.nextEntries[j]

----------------------------------------------------------------------------
(* The schedules route: specification SpecServer *)

\* the entries a PATCH body may carry: a booking, a cleaning day inside the
\* booking's range, and an entry of no allowed status
PatchEntries ==
    {[id |-> 1, status |-> "occupied", startDate |-> formatDateInput(0),
      endDate |-> formatDateInput(1), bookedBy |-> <<" ", "J">>],
     [id |-> 2, status |-> "cleaning", startDate |-> formatDateInput(1),
      endDate |-> formatDateInput(1)],
     [id |-> 3, status |-> "closed", startDate |-> formatDateInput(0),
      endDate |-> formatDateInput(0)]}

PatchBodies ==
    {[roomNumber |-> r, entries |-> e] :
        r \in {[number |-> n] : n \in Rooms} \cup {[string |-> "101"]},
        e \in {[array |-> list] : list \in SeqsUpTo(PatchEntries, MaxPatchLen)}
              \cup {[string |-> "none"]}}

PatchReceive ==
    /\ \E q \in 1..MaxReq, body \in PatchBodies : PATCH(q, body)
    /\ UNCHANGED <<resolveVars, editorVars, diffVars, storeVars, appVars, windowVars, logVars>>

PatchRead ==
    /\ \E q \in 1..MaxReq : patchRead(q)
    /\ UNCHANGED <<resolveVars, editorVars, diffVars, storeVars, appVars, windowVars, logVars>>

PatchWrite ==
    /\ \E q \in 1..MaxReq : patchWrite(q)
    /\ UNCHANGED <<resolveVars, editorVars, diffVars, storeVars, appVars, windowVars, logVars>>

PatchWriteFail ==
    /\ \E q \in 1..MaxReq : patchWriteFail(q)
    /\ UNCHANGED <<resolveVars, editorVars, diffVars, storeVars, appVars, windowVars, logVars>>

PatchReadFail ==
    /\ \E q \in 1..MaxReq : patchReadFail(q)
    /\ UNCHANGED <<resolveVars, editorVars, diffVars, storeVars, appVars, windowVars, logVars>>

Get ==
    /\ \E q \in 1..MaxReq : GET(q)
    /\ UNCHANGED <<resolveVars, editorVars, diffVars, storeVars, appVars, windowVars, logVars>>

PatchClose ==
    /\ \E q \in 1..MaxReq : patchClose(q)
    /\ UNCHANGED <<resolveVars, editorVars, diffVars, storeVars, appVars, windowVars, logVars>>

\* what the file may hold when the server starts: written by the route
\* ({}), or edited by hand into an array or into text that is no JSON
FileShapes == {"object", "array", "unparsable"}

SpecServerInit ==
    /\ schedulesFile = <<>>
    /\ fileShape \in FileShapes
    /\ requests = [q \in 1..MaxReq |-> [pc |-> "idle"]]
    /\ ResolveIdle /\ EditorInit /\ DiffIdle /\ StoreIdle /\ AppIdle
    /\ WindowIdle /\ LogsIdle

SpecServerNext ==
    \/ PatchReceive \/ PatchRead \/ PatchReadFail \/ PatchWrite \/ PatchWriteFail
    \/ Get \/ PatchClose

SpecServer == SpecServerInit /\ [][SpecServerNext]_vars

\* --- C2 ---------------------------------------------------------------
\* C2: for every room the persisted entry list is overlap-free in every
\* reachable state: whatever lists the PATCH requests carry, no two entries
\* persisted for the same room have intersecting ranges.
C2_PersistedNoOverlap ==
    \A key \in DOMAIN schedulesFile : OverlapFree(schedulesFile[key])

\* --- C11 --------------------------------------------------------------
\* the list persisted under key, <<>> when the map has no such key
persistedList(map, key) == IF key \in DOMAIN map THEN map[key] ELSE <<>>

\* C11: concurrent replace-schedule requests are last-write-wins per room:
\* the write of a request puts the list it carries under its own room and
\* never changes or discards the list persisted for a different room.
C11_PerRoomLastWriteWins ==
    [][\A q \in 1..MaxReq :
          (requests[q].pc = "writeSchedules" /\ requests'[q].pc = "done"
           /\ requests'[q].status = 200) =>
             \A key \in Rooms :
                persistedList(schedulesFile', key) =
                   IF key = requests[q].body.roomNumber.number
                   THEN requests[q].nextEntries
                   ELSE persistedList(schedulesFile, key)]_vars


\* --- C14 --------------------------------------------------------------
\* C14: while the persisted schedule resource is not parseable JSON or is
\* not a JSON object, reading the schedules and replacing a room's schedule
\* both fail with an error returned to the caller: a GET answers 500, a
\* PATCH that reaches its read answers 500, the content is never treated
\* as an empty map and the resource is not overwritten.
C14_InvalidFileIsFatal ==
    [][fileShape # "object" =>
          /\ fileShape' = fileShape
          /\ schedulesFile' = schedulesFile
          /\ \A q \in 1..MaxReq :
                /\ requests'[q].pc # "writeSchedules"
                /\ (requests[q].pc # "done" /\ requests'[q].pc = "done") =>
                      /\ requests'[q].status >= 400
                      /\ (requests[q].pc = "readSchedules" \/ requests'[q].method = "GET")
                            => requests'[q].status = 500]_vars

\* a file holding an array: a GET and a PATCH with a valid body have both
\* been answered 500
C14_Witness ==
    /\ fileShape = "array"
    /\ \E q \in 1..MaxReq :
          /\ requests[q].pc = "done" /\ requests[q].method = "GET"
          /\ requests[q].error = "Failed to load schedules."
    /\ \E q \in 1..MaxReq :
          /\ requests[q].pc = "done" /\ requests[q].method = "PATCH"
          /\ requests[q].error = "Failed to save schedules."
          /\ Len(requests[q].body.entries.array) > 0

----------------------------------------------------------------------------
(* The JSON file store: specification SpecStore *)

OthersOfStore == <<resolveVars, editorVars, diffVars, serverVars, appVars, windowVars, logVars>>

WriteCall == (\E w \in 1..MaxWrites, data \in Datas : writeJsonFile(w, data)) /\ UNCHANGED OthersOfStore

WriteFileOpen == (\E w \in 1..MaxWrites : writeFileOpen(w)) /\ UNCHANGED OthersOfStore

WriteFileDone == (\E w \in 1..MaxWrites : writeFileDone(w)) /\ UNCHANGED OthersOfStore

WriteFileFail == (\E w \in 1..MaxWrites : writeFileFail(w)) /\ UNCHANGED OthersOfStore

RenameDone == (\E w \in 1..MaxWrites : renameDone(w)) /\ UNCHANGED OthersOfStore

RenameFail == (\E w \in 1..MaxWrites : renameFail(w)) /\ UNCHANGED OthersOfStore

WriteStat == (\E w \in 1..MaxWrites : writeStat(w)) /\ UNCHANGED OthersOfStore

WriteCacheSet == (\E w \in 1..MaxWrites : writeCacheSet(w)) /\ UNCHANGED OthersOfStore

ReadCall == (\E r \in 1..MaxReaders : readJsonFile(r)) /\ UNCHANGED OthersOfStore

ReadStat == (\E r \in 1..MaxReaders : readStat(r)) /\ UNCHANGED OthersOfStore

ReadCheck == (\E r \in 1..MaxReaders : readCheck(r)) /\ UNCHANGED OthersOfStore

ReadFile == (\E r \in 1..MaxReaders : readFile(r)) /\ UNCHANGED OthersOfStore

ReadParse == (\E r \in 1..MaxReaders : readParse(r)) /\ UNCHANGED OthersOfStore

Tick == tick /\ UNCHANGED OthersOfStore

SpecStoreInit == StoreInit /\ ResolveIdle /\ EditorInit /\ DiffIdle /\ ServerIdle /\ AppIdle
                 /\ WindowIdle /\ LogsIdle

SpecStoreNext ==
    \/ WriteCall \/ WriteFileOpen \/ WriteFileDone \/ WriteFileFail
    \/ RenameDone \/ RenameFail \/ WriteStat \/ WriteCacheSet
    \/ ReadCall \/ ReadStat \/ ReadCheck \/ ReadFile \/ ReadParse
    \/ Tick

SpecStore == SpecStoreInit /\ [][SpecStoreNext]_vars

inFileOps(w) == writes[w].pc \in {"writeFile", "rename", "stat", "cacheSet"}

Succeeded == {w \in 1..MaxWrites : writes[w].pc = "done"}

C9_ReadAfterWrite ==
    \A r \in 1..MaxReaders :
        (reads[r].pc = "done" /\ reads[r].expect # null) =>
            reads[r].result = reads[r].expect.data

\* --- C10 --------------------------------------------------------------
CompleteTexts ==
    {serialized(InitialData)} \cup
    {serialized(writes[w].data) : w \in {v \in 1..MaxWrites : writes[v].pc # "idle"}}

WriteProgress ==
    \/ WriteFileOpen \/ WriteFileDone \/ WriteFileFail
    \/ RenameDone \/ RenameFail \/ WriteStat \/ WriteCacheSet

\* the store with every pending file operation of a write settling in time
SpecStoreFair ==
    SpecStoreInit /\ [][SpecStoreNext]_vars /\ WF_vars(WriteProgress)

\* a step in which write v rejects
Rejects(v) == writes[v].pc # "failed" /\ writes'[v].pc = "failed"

\* C25: a failed write is reported to the caller of that write only and does
\* not block the resource's write queue: the step in which a write rejects
\* is a file operation of that write and changes no other write, and every
\* write issued, whatever became of the writes before it, leaves the queue
\* and settles by its own file operations.
C25_FailedWriteDoesNotBlock ==
    /\ [][\A v \in 1..MaxWrites :
            Rejects(v) =>
               /\ writes[v].pc \in {"writeFile", "rename"}
               /\ \A w \in 1..MaxWrites \ {v} : writes'[w] = writes[w]
               /\ writeQueue' = writeQueue]_vars
    /\ \A w \in 1..MaxWrites : (writes[w].pc = "queued") ~> settled(w)

\* the first write failed at its rename and the write issued after it has
\* completed: the file holds the later write's data
C25_Witness ==
    /\ writes[1].pc = "failed"
    /\ writes[2].pc = "done"
    /\ writes[2].prev = 1
    /\ fs[filePath].text = serialized(writes[2].data)
    /\ writes[2].data # InitialData
----------------------------------------------------------------------------
(* context/AppContext: the provider *)
(* A handler and the render its state change causes are one step: the       *)
(* consumers of the context see the state only as a render exposes it.  The  *)
(* day a step finds is the day new Date() gives while it runs.               *)

firstOfMonth(date) == date - (getDate(date) - 1)

\* getTimelineWindow(new Date()): from the first day of the previous month to
\* the last day of the next month, as an offset from today and a day count,
\* each the floor of a difference of getTime() values over the length of a
\* 24-hour day (\div rounds down, as Math.floor does)
getTimelineWindow(fromDate) ==
    LET startOfPreviousMonth == firstOfMonth(firstOfMonth(fromDate) - 1)
        firstOfThis == firstOfMonth(fromDate)
        firstOfNext == firstOfThis + DaysInMonth(DateFields(firstOfThis)[1],
                                                 DateFields(firstOfThis)[2])
        endOfNextMonth == firstOfNext + DaysInMonth(DateFields(firstOfNext)[1],
                                                    DateFields(firstOfNext)[2]) - 1
    IN  [startDayOffset |->
            (getTime(startOfPreviousMonth) - getTime(fromDate)) \div DAY_MS,
         spanDays |->
            ((getTime(endOfNextMonth) - getTime(startOfPreviousMonth)) \div DAY_MS) + 1]

\* the memo is keyed by the rooms and the schedules alone
timelineDeps_NoWindow(h, s, day) == <<h, s>>

\* useMemo(..., [huts, schedules, timelineSpanDays, timelineStartOffset])
timelineDeps(h, s, day) ==
    <<h, s, getTimelineWindow(day).spanDays, getTimelineWindow(day).startDayOffset>>

\* buildTimeline(huts, timelineSpanDays, schedules, timelineStartOffset)
timelineValue(h, s, day) ==
    [days |-> getTimelineWindow(day).spanDays,
     startDayOffset |-> getTimelineWindow(day).startDayOffset,
     rows |-> buildTimelineOn(day, h, getTimelineWindow(day).spanDays, s,
                              getTimelineWindow(day).startDayOffset)]

\* a render of AppProvider with state (h, s) on day: the memo is recomputed
\* when a dependency differs from the one it was computed for
render(h, s, day) ==
    /\ huts' = h
    /\ schedules' = s
    /\ today' = day
    /\ memoDeps' = timelineDeps(h, s, day)
    /\ timeline' = IF timelineDeps(h, s, day) = memoDeps
                   THEN timeline
                   ELSE timelineValue(h, s, day)
    /\ UNCHANGED resolved

\* the filter of normalizeSchedulesMap: id, status, startDate and endDate are
\* strings, bookedBy is a string or absent (a status and a date are held as
\* strings whatever their content; a field that is no string is a field the
\* record lacks)
isParsedEntry(entry) ==
    /\ "id" \in DOMAIN entry
    /\ "status" \in DOMAIN entry
    /\ "startDate" \in DOMAIN entry
    /\ "endDate" \in DOMAIN entry

\* normalizeSchedulesMap(raw) for the object a 200 response carries: every
\* key of the map is an integer and every value an array
normalizeSchedulesMap(raw) ==
    [roomKey \in DOMAIN raw |-> SelectSeq(raw[roomKey], isParsedEntry)]

\* the loadSchedules effect once the response to its GET is there
loadSchedules(q, day) ==
    /\ requests[q].pc = "done"
    /\ requests[q].method = "GET"
    /\ IF requests[q].status = 200
       THEN /\ render(huts, normalizeSchedulesMap(requests[q].schedules), day)
            /\ UNCHANGED toast
       ELSE /\ render(huts, schedules, day)
            /\ toast' = [text |-> "Could not load saved availability schedules."]
    /\ scheduleLoad' = IF requests[q].status = 200 THEN "loaded" ELSE "failed"
    /\ requests' = [requests EXCEPT ![q] = [pc |-> "idle"]]
    /\ UNCHANGED <<updates, activityLogs, schedulesFile, fileShape>>

\* fetch("/api/schedules") rejects: the catch block of the effect
loadSchedulesFailed(day) ==
    /\ scheduleLoad = "pending"
    /\ \A q \in 1..MaxReq : requests[q].pc = "idle"
    /\ render(huts, schedules, day)
    /\ toast' = [text |-> "Could not load saved availability schedules."]
    /\ scheduleLoad' = "failed"
    /\ UNCHANGED <<updates, activityLogs, schedulesFile, fileShape, requests>>

withRoom_KeepEmpty(prev, roomNumber, entries) == setKey(prev, roomNumber, entries)

\* setSchedules((prev) => ...): entries under roomNumber, the key deleted
\* when entries is empty
withRoom(prev, roomNumber, entries) ==
    IF Len(entries) = 0 THEN deleteKey(prev, roomNumber)
    ELSE setKey(prev, roomNumber, entries)

\* JSON.stringify({ roomNumber, entries }) as /api/schedules receives it
patchBody(roomNumber, entries) ==
    [roomNumber |-> [number |-> roomNumber], entries |-> [array |-> entries]]

\* handleUpdateSchedule up to its first await: the optimistic update
handleUpdateSchedule(u, roomNumber, entries, day) ==
    /\ updates[u].pc = "idle"
    /\ \A v \in 1..(u - 1) : updates[v].pc # "idle"
    /\ updates' = [updates EXCEPT ![u] =
          [pc |-> "patch", roomNumber |-> roomNumber, entries |-> entries,
           previousEntries |-> roomSchedule(roomNumber),
           logPayload |-> buildScheduleLogPayload(roomNumber, roomSchedule(roomNumber),
                                                  entries, day)]]
    /\ render(huts, withRoom(schedules, roomNumber, entries), day)
    /\ UNCHANGED <<toast, activityLogs, schedulesFile, fileShape, requests, scheduleLoad>>

\* the catch block: the room is put back to previousEntries
rollback(u, day) ==
    /\ render(huts, withRoom(schedules, updates[u].roomNumber, updates[u].previousEntries), day)
    /\ toast' = [text |-> "Failed to save availability", roomNumber |-> updates[u].roomNumber]

afterSave_AlwaysLog(payload) == "log"

\* if (logPayload.length === 0) return; else the POST to /api/logs follows
afterSave(payload) == IF Len(payload) = 0 THEN "saved" ELSE "log"

\* PATCH /api/schedules answers 200: the route has stored the normalized list
scheduleSaved(u, day) ==
    /\ updates[u].pc = "patch"
    /\ patchError(patchBody(updates[u].roomNumber, updates[u].entries)) = "none"
    /\ readSchedulesError(fileShape) = "none"
    /\ schedulesFile' = withRoom(readSchedules(schedulesFile), updates[u].roomNumber,
                                 normalizeEntries(updates[u].entries))
    /\ toast' = [text |-> "Availability saved", roomNumber |-> updates[u].roomNumber]
    /\ updates' = [updates EXCEPT ![u].pc = afterSave(updates[u].logPayload)]
    /\ render(huts, schedules, day)
    /\ UNCHANGED <<activityLogs, fileShape, requests, scheduleLoad>>

\* PATCH answers 400 or 500, or fetch rejects
scheduleSaveFailed(u, day) ==
    /\ updates[u].pc = "patch"
    /\ rollback(u, day)
    /\ updates' = [updates EXCEPT ![u].pc = "saveFailed"]
    /\ UNCHANGED <<activityLogs, schedulesFile, fileShape, requests, scheduleLoad>>

\* POST /api/logs answers 201: the new logs stand before the existing ones
logsSaved(u, day) ==
    /\ updates[u].pc = "log"
    /\ activityLogs' = updates[u].logPayload \o activityLogs
    /\ updates' = [updates EXCEPT ![u].pc = "logged"]
    /\ render(huts, schedules, day)
    /\ UNCHANGED <<toast, schedulesFile, fileShape, requests, scheduleLoad>>

\* POST /api/logs answers 400 or 500, or fetch rejects
logsSaveFailed(u, day) ==
    /\ updates[u].pc = "log"
    /\ rollback(u, day)
    /\ updates' = [updates EXCEPT ![u].pc = "logFailed"]
    /\ UNCHANGED <<activityLogs, schedulesFile, fileShape, requests, scheduleLoad>>

\* refreshHuts: setHuts(data) with the rooms /api/huts returns
refreshHuts(data, day) ==
    /\ render(data, schedules, day)
    /\ UNCHANGED <<toast, updates, activityLogs, schedulesFile, fileShape, requests, scheduleLoad>>

\* the 1 s interval: setDateTime(formatDateTime(new Date()))
clockTick(day) ==
    /\ day # today
    /\ render(huts, schedules, day)
    /\ UNCHANGED <<toast, updates, activityLogs, schedulesFile, fileShape, requests, scheduleLoad>>

\* hutsData, and what /api/huts may hold instead
HutsData ==
    {<<[number |-> 101, status |-> "available"], [number |-> 102, status |-> "maintenance"]>>,
     <<[number |-> 101, status |-> "cleaning"], [number |-> 102, status |-> "maintenance"]>>}

AppInit ==
    /\ huts = <<[number |-> 101, status |-> "available"],
                [number |-> 102, status |-> "maintenance"]>>
    /\ schedules = <<>>
    /\ today \in Days
    /\ resolved = null
    /\ memoDeps = timelineDeps(huts, schedules, today)
    /\ timeline = timelineValue(huts, schedules, today)
    /\ toast = null
    /\ updates = [u \in 1..MaxUpdates |-> [pc |-> "idle"]]
    /\ activityLogs = <<>>
    /\ scheduleLoad = "pending"
    /\ ServerInit

----------------------------------------------------------------------------
(* The provider and its two routes: specification SpecApp *)

\* the lists a schedule editor hands to onUpdateSchedule
UpdateEntries ==
    {[id |-> 1, status |-> "occupied", startDate |-> formatDateInput(0),
      endDate |-> formatDateInput(1), bookedBy |-> <<"J">>],
     [id |-> 2, status |-> "cleaning", startDate |-> formatDateInput(2),
      endDate |-> formatDateInput(2)]}

UpdateLists == {<<>>} \cup {<<e>> : e \in UpdateEntries}

\* the day a step finds: today, or the next day once midnight has passed
DaysNow == {d \in Days : d = today \/ d = today + 1}

OthersOfApp == <<editorVars, diffVars, storeVars, windowVars, logVars>>

UpdateSchedule ==
    /\ \E u \in 1..MaxUpdates, r \in Rooms, entries \in UpdateLists, day \in DaysNow :
          handleUpdateSchedule(u, r, entries, day)
    /\ UNCHANGED OthersOfApp

ScheduleSaved ==
    /\ \E u \in 1..MaxUpdates, day \in DaysNow : scheduleSaved(u, day)
    /\ UNCHANGED OthersOfApp

ScheduleSaveFailed ==
    /\ \E u \in 1..MaxUpdates, day \in DaysNow : scheduleSaveFailed(u, day)
    /\ UNCHANGED OthersOfApp

LogsSaved ==
    /\ \E u \in 1..MaxUpdates, day \in DaysNow : logsSaved(u, day)
    /\ UNCHANGED OthersOfApp

LogsSaveFailed ==
    /\ \E u \in 1..MaxUpdates, day \in DaysNow : logsSaveFailed(u, day)
    /\ UNCHANGED OthersOfApp

RefreshHuts ==
    /\ \E data \in HutsData, day \in DaysNow : refreshHuts(data, day)
    /\ UNCHANGED OthersOfApp

ClockTick ==
    /\ \E day \in DaysNow : clockTick(day)
    /\ UNCHANGED OthersOfApp

SpecAppInit == WindowIdle /\ AppInit /\ EditorInit /\ DiffIdle /\ StoreIdle /\ LogsIdle

SpecAppNext ==
    \/ UpdateSchedule \/ ScheduleSaved \/ ScheduleSaveFailed
    \/ LogsSaved \/ LogsSaveFailed \/ RefreshHuts \/ ClockTick

SpecApp == SpecAppInit /\ [][SpecAppNext]_vars

\* --- C12 --------------------------------------------------------------
\* C12: when the audit-log write fails after the schedule write of an update
\* has succeeded, the schedule change is not rolled back: the room's list
\* stays as it was in the persisted map and in the client's schedule map,
\* and the failure is shown to the user.
C12_NoRollbackOnLogFailure ==
    [][\A u \in 1..MaxUpdates :
          (updates[u].pc = "log" /\ updates'[u].pc = "logFailed") =>
             /\ schedulesFile' = schedulesFile
             /\ schedules' = schedules
             /\ toast'.text = "Failed to save availability"]_vars

\* --- C18 --------------------------------------------------------------
\* C18: in every state the timeline the provider exposes is the one built
\* afresh from the rooms, the schedules, the window and today: after any
\* schedule mutation, room refresh or change of day, element i of each
\* room's array is the status resolved for today + startDayOffset + i, and
\* no stale memoised value remains.
C18_TimelineFresh ==
    LET window == getTimelineWindow(today)
    IN  /\ timeline.days = window.spanDays
        /\ timeline.startDayOffset = window.startDayOffset
        /\ \A r \in DOMAIN huts :
             /\ huts[r].number \in DOMAIN timeline.rows
             /\ Len(timeline.rows[huts[r].number]) = window.spanDays
             /\ \A i \in 0..(window.spanDays - 1) :
                  timeline.rows[huts[r].number][i + 1] =
                     getStatusForDate(roomSchedule(huts[r].number),
                                      today + window.startDayOffset + i,
                                      huts[r].status)

\* a booking made on an earlier day shows in the window of a new month,
\* beside the status a room refresh has brought
C18_Witness ==
    /\ \E u \in 1..MaxUpdates :
         /\ updates[u].pc = "logged"
         /\ updates[u].logPayload[1].createdAt < today
         /\ updates[u].roomNumber = 101
    /\ DateFields(today)[2] = 1
    /\ huts[1].status = "cleaning"
    /\ \E i \in DOMAIN timeline.rows[101] : timeline.rows[101][i] = "occupied"
    /\ \E i \in DOMAIN timeline.rows[101] : timeline.rows[101][i] = "cleaning"

\* --- C23 --------------------------------------------------------------
NoEmptyList(map) == \A key \in DOMAIN map : Len(map[key]) > 0

\* map2 is map1 but for key
SameButKey(map1, map2, key) ==
    /\ DOMAIN map1 \ {key} = DOMAIN map2 \ {key}
    /\ \A k \in DOMAIN map1 \ {key} : map2[k] = map1[k]

C26_LogAfterScheduleSaved ==
    [][/\ \A u \in 1..MaxUpdates :
            /\ (updates[u].pc # "log" /\ updates'[u].pc = "log") =>
                  /\ updates[u].pc = "patch"
                  /\ Len(updates[u].logPayload) > 0
                  /\ persistedList(schedulesFile', updates[u].roomNumber) =
                        normalizeEntries(updates[u].entries)
            /\ (updates[u].pc = "patch" /\ updates'[u].pc = "saveFailed") =>
                  activityLogs' = activityLogs
            /\ (updates[u].pc = "patch" /\ updates'[u].pc # "patch"
                /\ Len(updates[u].logPayload) = 0) =>
                  updates'[u].pc \in {"saved", "saveFailed"}
            /\ updates[u].pc \in {"saved", "saveFailed"} => updates'[u] = updates[u]
       /\ activityLogs' # activityLogs =>
            \E u \in 1..MaxUpdates :
                /\ updates[u].pc = "log" /\ updates'[u].pc = "logged"
                /\ activityLogs' = updates[u].logPayload \o activityLogs]_vars

\* one update's schedule write has failed and its events are in no log; a
\* second update, of another room, has been saved and logged
C26_Witness ==
    /\ \E u \in 1..MaxUpdates : \E v \in 1..MaxUpdates :
          /\ updates[u].pc = "saveFailed"
          /\ Len(updates[u].logPayload) > 0
          /\ updates[v].pc = "logged"
          /\ updates[v].roomNumber # updates[u].roomNumber
          /\ activityLogs = updates[v].logPayload

\* --- C28 --------------------------------------------------------------
idSet(list) == {list[i].id : i \in DOMAIN list}

\* C28: for each room, once every save request the client has issued has
\* completed, succeeding or failing, the client's in-memory list of the
\* room holds exactly the entry ids of the list persisted for the room; the
\* rollback of a failed save never discards the entry of a later edit
\* whose own save succeeded.
C28_ClientMatchesPersisted ==
    (\A u \in 1..MaxUpdates : updates[u].pc \in {"idle", "saved", "logged", "saveFailed"})
    => \A r \in Rooms :
          idSet(roomSchedule(r)) = idSet(persistedList(schedulesFile, r))

----------------------------------------------------------------------------
(* Loading the schedule map: specification SpecLoad *)
(* The file holds what an earlier version or an editor left in it; the      *)
(* server loads it for a GET and the provider loads the response.           *)

\* entries a file may hold: a booking, an entry with no id, one of no allowed
\* status, one with an ill-formed start date, one with a blank bookedBy
RawEntries ==
    {[id |-> 1, status |-> "occupied", startDate |-> formatDateInput(0),
      endDate |-> formatDateInput(1), bookedBy |-> <<"J">>],
     [status |-> "cleaning", startDate |-> formatDateInput(1),
      endDate |-> formatDateInput(1)],
     [id |-> 3, status |-> "closed", startDate |-> formatDateInput(0),
      endDate |-> formatDateInput(0)],
     [id |-> 4, status |-> "cleaning", startDate |-> 0,
      endDate |-> formatDateInput(1)],
     [id |-> 5, status |-> "maintenance", startDate |-> formatDateInput(2),
      endDate |-> formatDateInput(2), bookedBy |-> <<" ">>]}

RawMaps == [Rooms -> SeqsUpTo(RawEntries, MaxLen)]

SpecLoadInit ==
    /\ WindowIdle
    /\ huts = <<[number |-> 101, status |-> "available"],
                [number |-> 102, status |-> "maintenance"]>>
    /\ schedules = <<>>
    /\ today = 0
    /\ resolved = null
    /\ memoDeps = timelineDeps(huts, schedules, today)
    /\ timeline = timelineValue(huts, schedules, today)
    /\ toast = null
    /\ updates = [u \in 1..MaxUpdates |-> [pc |-> "idle"]]
    /\ activityLogs = <<>>
    /\ scheduleLoad = "pending"
    /\ schedulesFile \in RawMaps
    /\ fileShape = "object"
    /\ requests = [q \in 1..MaxReq |-> [pc |-> "idle"]]
    /\ EditorInit /\ DiffIdle /\ StoreIdle /\ LogsIdle

\* the provider mounts: its effect sends GET /api/schedules
LoadGet ==
    /\ GET(1)
    /\ UNCHANGED <<resolveVars, editorVars, diffVars, storeVars, appVars, windowVars, logVars>>

LoadSchedules ==
    /\ loadSchedules(1, today)
    /\ UNCHANGED <<editorVars, diffVars, storeVars, windowVars, logVars>>

SpecLoadNext == LoadGet \/ LoadSchedules

SpecLoad == SpecLoadInit /\ [][SpecLoadNext]_vars

\* --- C13 --------------------------------------------------------------
\* the structural validation the load is to apply: id a string, status one
\* of the four values, startDate and endDate of the form YYYY-MM-DD
StructurallyValid(entry) ==
    /\ "id" \in DOMAIN entry
    /\ entry.status \in RoomStatus
    /\ entry.startDate # 0
    /\ entry.endDate # 0

\* C13: loading the schedule map drops exactly the entries that fail
\* structural validation and keeps every other entry of every room in its
\* original order, the load never failing for an invalid entry; and the
\* client-side load applies the same acceptance rule as the server-side
\* load: applied to the lists of the file it keeps what the server kept.
C13_LoadDropsExactlyInvalid ==
    \A q \in 1..MaxReq :
        (requests[q].pc = "done" /\ requests[q].method = "GET") =>
            /\ requests[q].status = 200
            /\ \A key \in DOMAIN schedulesFile :
                  /\ requests[q].schedules[key] =
                        SelectSeq(schedulesFile[key], StructurallyValid)
                  /\ SelectSeq(schedulesFile[key], isParsedEntry) =
                        requests[q].schedules[key]


\* --- C24 --------------------------------------------------------------
\* an entry of the file whose required fields are valid and whose bookedBy
\* is present and no booker name
MalformedOptional(entry) ==
    /\ StructurallyValid(entry)
    /\ "bookedBy" \in DOMAIN entry
    /\ ~isBookerName(entry.bookedBy)

\* list holds an entry of that id which has no bookedBy
KeptWithoutBookedBy(list, id) ==
    \E j \in 1..Len(list) :
        /\ "id" \in DOMAIN list[j]
        /\ list[j].id = id
        /\ "bookedBy" \notin DOMAIN list[j]

\* C24: on load, an entry whose id, status, startDate and endDate are valid
\* and whose bookedBy is present and malformed is kept in the room's list
\* with only that field dropped: the list a GET answers holds an entry of
\* its id that has no bookedBy.
C24_MalformedOptionalFieldDropped ==
    \A q \in 1..MaxReq :
        (requests[q].pc = "done" /\ requests[q].method = "GET") =>
            \A key \in DOMAIN schedulesFile :
                \A i \in 1..Len(schedulesFile[key]) :
                    MalformedOptional(schedulesFile[key][i]) =>
                        KeptWithoutBookedBy(requests[q].schedules[key],
                                            schedulesFile[key][i].id)
----------------------------------------------------------------------------
(* Saving a room's list: specification SpecSave *)
(* One client replaces the lists of the rooms one request after another.   *)

\* the entries a saved list may carry: a booking with its name as typed and
\* as stored, a cleaning day that starts with the booking, a maintenance
\* day inside the booking with a note that ends in a blank, a booking with
\* no name and a cleaning range that ends before it starts
SaveEntries ==
    {[id |-> 1, status |-> "occupied", startDate |-> formatDateInput(0),
      endDate |-> formatDateInput(1), bookedBy |-> <<" ", "J">>],
     [id |-> 1, status |-> "occupied", startDate |-> formatDateInput(0),
      endDate |-> formatDateInput(1), bookedBy |-> <<"J">>],
     [id |-> 2, status |-> "cleaning", startDate |-> formatDateInput(0),
      endDate |-> formatDateInput(0)],
     [id |-> 3, status |-> "maintenance", startDate |-> formatDateInput(1),
      endDate |-> formatDateInput(1), bookedBy |-> <<"J", " ">>],
     [id |-> 4, status |-> "occupied", startDate |-> formatDateInput(2),
      endDate |-> formatDateInput(2)],
     [id |-> 5, status |-> "cleaning", startDate |-> formatDateInput(2),
      endDate |-> formatDateInput(1)]}

SaveBodies ==
    {patchBody(r, list) : r \in Rooms, list \in SeqsUpTo(SaveEntries, MaxPatchLen)}

SavePatch ==
    /\ \E body \in SaveBodies : PATCH(1, body)
    /\ UNCHANGED <<resolveVars, editorVars, diffVars, storeVars, appVars, windowVars, logVars>>

SaveRead ==
    /\ patchRead(1)
    /\ UNCHANGED <<resolveVars, editorVars, diffVars, storeVars, appVars, windowVars, logVars>>

SaveWrite ==
    /\ patchWrite(1)
    /\ UNCHANGED <<resolveVars, editorVars, diffVars, storeVars, appVars, windowVars, logVars>>

SaveWriteFail ==
    /\ patchWriteFail(1)
    /\ UNCHANGED <<resolveVars, editorVars, diffVars, storeVars, appVars, windowVars, logVars>>

SaveClose ==
    /\ patchClose(1)
    /\ UNCHANGED <<resolveVars, editorVars, diffVars, storeVars, appVars, windowVars, logVars>>

SpecSaveInit == ServerInit /\ ResolveIdle /\ EditorInit /\ DiffIdle /\ StoreIdle /\ AppIdle
                /\ WindowIdle /\ LogsIdle

SpecSaveNext == SavePatch \/ SaveRead \/ SaveWrite \/ SaveWriteFail \/ SaveClose

SpecSave == SpecSaveInit /\ [][SpecSaveNext]_vars

\* --- C15 --------------------------------------------------------------
\* the number of entries of list whose id is id
CountId(list, id) == Cardinality({i \in DOMAIN list : list[i].id = id})

NonBlank(c) == c # " "

\* out is sent but for blanks of its bookedBy
SameButBlanks(out, sent) ==
    /\ out.id = sent.id
    /\ out.status = sent.status
    /\ out.startDate = sent.startDate
    /\ out.endDate = sent.endDate
    /\ HasBookedBy(out) = HasBookedBy(sent)
    /\ HasBookedBy(out) =>
          SelectSeq(out.bookedBy, NonBlank) = SelectSeq(sent.bookedBy, NonBlank)

C16_SaveAfterLoadNoOp ==
    [][(/\ requests[1].pc = "writeSchedules" /\ requests'[1].pc = "done"
        /\ requests'[1].status = 200
        /\ requests[1].body.entries.array =
              persistedList(readSchedules(schedulesFile),
                            requests[1].body.roomNumber.number))
       => /\ schedulesFile' = schedulesFile
          /\ requests'[1].entries = requests[1].body.entries.array]_vars

\* the list persisted for a room, two entries that start on the same day,
\* has been loaded and normalised again, and the map about to be written is
\* the map the file holds
C16_Witness ==
    /\ requests[1].pc = "writeSchedules"
    /\ requests[1].body.roomNumber.number \in DOMAIN schedulesFile
    /\ requests[1].body.entries.array =
          schedulesFile[requests[1].body.roomNumber.number]
    /\ Len(requests[1].nextEntries) = 2
    /\ requests[1].nextEntries[1].startDate = requests[1].nextEntries[2].startDate
    /\ requests[1].nextEntries[1].id # requests[1].nextEntries[2].id
    /\ requests[1].schedules = schedulesFile
    /\ 102 \in DOMAIN schedulesFile

\* --- C20 --------------------------------------------------------------
\* C20: a room's list is kept in insertion order, so that the entry added
\* later wins for a day two entries cover; this holds after saving and
\* loading again: the list loaded back after a save resolves every day to
\* the status the list that was saved resolves it to.
C20_LaterEntryWinsAfterSave ==
    [][(requests[1].pc = "writeSchedules" /\ requests'[1].pc = "done"
        /\ requests'[1].status = 200) =>
          \A day \in Days : \A s \in RoomStatus :
              getStatusForDate(
                  persistedList(readSchedules(schedulesFile'),
                                requests'[1].roomNumber), day, s)
              = getStatusForDate(requests[1].body.entries.array, day, s)]_vars

\* --- C21 --------------------------------------------------------------
\* C21: every entry with status occupied in a room's persisted list has a
\* bookedBy that is non-empty after trimming, after any sequence of
\* replace-schedule requests whatever entry lists they carry.
C21_OccupiedHasBooker ==
    \A key \in DOMAIN schedulesFile : \A i \in DOMAIN schedulesFile[key] :
        schedulesFile[key][i].status = "occupied" =>
            /\ HasBookedBy(schedulesFile[key][i])
            /\ Len(trim(schedulesFile[key][i].bookedBy)) > 0

\* --- C22 --------------------------------------------------------------
\* C22: every entry of every room in the persisted map has
\* startDate <= endDate after any sequence of replace-schedule requests
\* (the editor's list has the same property, an addRange whose start is
\* after its end adding nothing).
C22_StartNotAfterEnd ==
    \A key \in DOMAIN schedulesFile : \A i \in DOMAIN schedulesFile[key] :
        schedulesFile[key][i].startDate <= schedulesFile[key][i].endDate

----------------------------------------------------------------------------
(* components/Timeline: the window of dates the grid shows *)
(* startOfDay(value) resets a Date to its local midnight: a Date held as a  *)
(* day is its own startOfDay.                                               *)

\* Math.floor((startOfDay(toDate).getTime() - startOfDay(fromDate).getTime()) / DAY_MS)
diffDayOffset(fromDate, toDate) == (getTime(toDate) - getTime(fromDate)) \div DAY_MS

RECURSIVE shiftMonths(_, _)
\* the first day of the month k months from the month that starts on first
shiftMonths(first, k) ==
    IF k = 0 THEN first
    ELSE IF k > 0
    THEN shiftMonths(first + DaysInMonth(DateFields(first)[1], DateFields(first)[2]), k - 1)
    ELSE shiftMonths(firstOfMonth(first - 1), k + 1)

\* new Date(date.getFullYear(), date.getMonth() + months, day) for day 1 and
\* day 0, day 0 being the last day of the month before
newDate(date, months, day) == shiftMonths(firstOfMonth(date), months) + (day - 1)

buildMonthSpanWindow(day, mOffset, spanMonths) ==
    LET windowStart == newDate(day, mOffset, 1)
        windowEnd == newDate(day, mOffset + spanMonths, 0)
        startOffset == diffDayOffset(day, windowStart)
        endOffset == diffDayOffset(day, windowEnd)
        days == endOffset - startOffset + 1
    IN  [dates |-> [k \in 1..days |->
                      setDate(windowStart, getDate(windowStart) + (k - 1))],
         startOffset |-> startOffset]

buildWindowDates(mode, day, mOffset, sOffset) ==
    IF mode = "seven_days"
    THEN [dates |-> [k \in 1..7 |-> setDate(day, getDate(day) + sOffset + (k - 1))],
          startOffset |-> sOffset]
    ELSE IF mode = "current_month"
    THEN buildMonthSpanWindow(day, mOffset, 1)
    ELSE buildMonthSpanWindow(day, mOffset, 2)

\* const { dates, startOffset } = buildWindowDates(windowMode, today, ...)
\* of the render that shows the state
shown == buildWindowDates(windowMode, today, monthOffset, sevenDayOffset)

\* timelineDayOffset of the cell at index (from 0) of the window
timelineDayOffset(index) == shown.startOffset + index

\* timelineArrayIndex: timelineDayOffset - timelineStartOffset, the offset
\* the provider built its timeline for
timelineArrayIndex(index) == timelineDayOffset(index) - timeline.startDayOffset

\* status = timeline[room.number]?.[timelineArrayIndex] ?? scheduleStatus
cellStatus(room, index) ==
    IF timelineArrayIndex(index) \in 0..(timeline.days - 1)
    THEN timeline.rows[room.number][timelineArrayIndex(index) + 1]
    ELSE getStatusForDate(roomSchedule(room.number), shown.dates[index + 1],
                          room.status)

handleWindowSelect(nextMode) ==
    /\ windowMode' = nextMode
    /\ IF nextMode = "seven_days"
       THEN sevenDayOffset' = 0 /\ UNCHANGED monthOffset
       ELSE monthOffset' = 0 /\ UNCHANGED sevenDayOffset
    /\ UNCHANGED zone

\* the window moves by `sign` windows: -1 is handlePrevious, 1 is handleNext
moveWindow(sign) ==
    /\ IF windowMode = "seven_days"
       THEN /\ sevenDayOffset + 7 * sign \in (-7 * MaxWeeks)..(7 * MaxWeeks)
            /\ sevenDayOffset' = sevenDayOffset + 7 * sign
            /\ UNCHANGED monthOffset
       ELSE /\ LET step == IF windowMode = "current_month" THEN 1 ELSE 2
               IN  /\ monthOffset + step * sign \in -MaxMonthOffset..MaxMonthOffset
                   /\ monthOffset' = monthOffset + step * sign
            /\ UNCHANGED sevenDayOffset
    /\ UNCHANGED <<zone, windowMode>>

handlePrevious == moveWindow(-1)

handleNext == moveWindow(1)

----------------------------------------------------------------------------
(* The timeline grid over the provider's timeline: specification SpecWindow *)

TimelineWindows == {"seven_days", "current_month", "two_months"}

\* a booking of the first day of the month before Epoch's, or no booking
WindowSchedules ==
    {<<>>,
     (101 :> <<[id |-> 1, status |-> "occupied",
                startDate |-> formatDateInput(newDate(0, -1, 1)),
                endDate |-> formatDateInput(newDate(0, -1, 1)),
                bookedBy |-> <<"J">>]>>)}

SpecWindowInit ==
    /\ zone \in Zones
    /\ huts = <<[number |-> 101, status |-> "available"],
                [number |-> 102, status |-> "maintenance"]>>
    /\ schedules \in WindowSchedules
    /\ today = 0
    /\ resolved = null
    /\ memoDeps = timelineDeps(huts, schedules, today)
    /\ timeline = timelineValue(huts, schedules, today)
    /\ toast = null
    /\ updates = [u \in 1..MaxUpdates |-> [pc |-> "idle"]]
    /\ activityLogs = <<>>
    /\ scheduleLoad = "pending"
    /\ ServerInit
    /\ windowMode = "seven_days"
    /\ sevenDayOffset = 0
    /\ monthOffset = 0
    /\ EditorInit /\ DiffIdle /\ StoreIdle /\ LogsIdle

OthersOfWindow == <<resolveVars, editorVars, diffVars, serverVars, storeVars, appVars, logVars>>

WindowSelect ==
    /\ \E nextMode \in TimelineWindows : handleWindowSelect(nextMode)
    /\ UNCHANGED OthersOfWindow

WindowPrevious == handlePrevious /\ UNCHANGED OthersOfWindow

WindowNext == handleNext /\ UNCHANGED OthersOfWindow

\* midnight passes: the provider and the grid render with the new day
WindowClock ==
    /\ \E day \in DaysNow : clockTick(day)
    /\ UNCHANGED <<editorVars, diffVars, storeVars, windowVars, logVars>>

SpecWindowNext == WindowSelect \/ WindowPrevious \/ WindowNext \/ WindowClock

SpecWindow == SpecWindowInit /\ [][SpecWindowNext]_vars

\* --- C27 --------------------------------------------------------------
\* C27: for a local-midnight date d and an integer n the whole-day
\* difference between d and d shifted by n days is n; so the dates of the
\* window shown lie at their index from its first date, each cell's day
\* offset is the whole-day difference from today to the cell's date, that
\* date is today shifted by the cell's day offset, and the element of the
\* provider's timeline at the cell's array index (day offset minus the
\* timeline's start offset) is the status of the cell's date, in every zone.
C27_OffsetsDesignateDates ==
    \A index \in 0..(Len(shown.dates) - 1) :
        LET date == shown.dates[index + 1]
        IN  /\ diffDayOffset(shown.dates[1], date) = index
            /\ diffDayOffset(today, date) = timelineDayOffset(index)
            /\ date = setDate(today, getDate(today) + timelineDayOffset(index))
            /\ \A r \in DOMAIN huts :
                  cellStatus(huts[r], index) =
                     getStatusForDate(roomSchedule(huts[r].number), date,
                                      huts[r].status)
----------------------------------------------------------------------------
(* The provider from its mount on: specification SpecMount *)
(* schedules.json holds bookings when the page opens; the provider starts   *)
(* with an empty map and its effect fetches the stored one.  The editor     *)
(* hands over the list the provider shows for the room with one entry       *)
(* appended.                                                                *)

\* what schedules.json holds when the page opens
MountFile ==
    (101 :> <<[id |-> 1, status |-> "occupied", startDate |-> formatDateInput(0),
               endDate |-> formatDateInput(0), bookedBy |-> <<"J">>]>>)

\* the entries the user adds, on days no stored entry covers
MountEntries ==
    {[id |-> 2, status |-> "cleaning", startDate |-> formatDateInput(1),
      endDate |-> formatDateInput(1)],
     [id |-> 3, status |-> "maintenance", startDate |-> formatDateInput(2),
      endDate |-> formatDateInput(2)]}

SpecMountInit ==
    /\ WindowIdle
    /\ huts = <<[number |-> 101, status |-> "available"],
                [number |-> 102, status |-> "maintenance"]>>
    /\ schedules = <<>>
    /\ today = 0
    /\ resolved = null
    /\ memoDeps = timelineDeps(huts, schedules, today)
    /\ timeline = timelineValue(huts, schedules, today)
    /\ toast = null
    /\ updates = [u \in 1..MaxUpdates |-> [pc |-> "idle"]]
    /\ activityLogs = <<>>
    /\ scheduleLoad = "pending"
    /\ schedulesFile = MountFile
    /\ fileShape = "object"
    /\ requests = [q \in 1..MaxReq |-> [pc |-> "idle"]]
    /\ EditorInit /\ DiffIdle /\ StoreIdle /\ LogsIdle

\* the route handles the GET the effect sent
MountGet ==
    /\ scheduleLoad = "pending"
    /\ GET(1)
    /\ UNCHANGED <<resolveVars, editorVars, diffVars, storeVars, appVars, windowVars, logVars>>

MountLoad ==
    /\ loadSchedules(1, today)
    /\ UNCHANGED OthersOfApp

MountLoadFailed ==
    /\ loadSchedulesFailed(today)
    /\ UNCHANGED OthersOfApp

\* the user adds an entry to the list the provider shows for a room
MountUpdate ==
    /\ \E u \in 1..MaxUpdates, r \in Rooms, e \in MountEntries :
          /\ \A i \in 1..Len(roomSchedule(r)) : roomSchedule(r)[i].id # e.id
          /\ handleUpdateSchedule(u, r, Append(roomSchedule(r), e), today)
    /\ UNCHANGED OthersOfApp

SpecMountNext ==
    \/ MountGet \/ MountLoad \/ MountLoadFailed \/ MountUpdate
    \/ ScheduleSaved \/ ScheduleSaveFailed \/ LogsSaved \/ LogsSaveFailed

SpecMount == SpecMountInit /\ [][SpecMountNext]_vars

\* --- C29 --------------------------------------------------------------
\* C29: an edit to a room made while the provider's schedule map is not
\* loaded never removes entries already persisted for the room: the user
\* only adding entries, every entry the file held at the start is still
\* persisted; and once the initial load has completed and no save is under
\* way the provider's list of each room has the ids of the persisted list.
C29_EditBeforeLoadKeepsPersisted ==
    /\ \A key \in DOMAIN MountFile :
          idSet(MountFile[key]) \subseteq idSet(persistedList(schedulesFile, key))
    /\ (/\ scheduleLoad = "loaded"
        /\ \A u \in 1..MaxUpdates : updates[u].pc \notin {"patch", "log"})
          => \A r \in Rooms :
                idSet(roomSchedule(r)) = idSet(persistedList(schedulesFile, r))
----------------------------------------------------------------------------
(* api/logs, api/logs/[id] and api/logs/archive: the audit log and its     *)
(* archive                                                                  *)
(* A log entry is held by its id; an archived entry carries archivedAt.     *)
(* Each await of a handler is a step of its own.  readLogs and readArchive  *)
(* return what the file holds (every entry of the files here is valid); a   *)
(* write stores its argument or rejects and leaves the file as it was.      *)

logsPOSTRoute == "POST /api/logs"

logsDELETERoute == "DELETE /api/logs"

logDELETERoute == "DELETE /api/logs/[id]"

archivePOSTRoute == "POST /api/logs/archive"

\* { ...entry, archivedAt: new Date().toISOString() }
withArchivedAt(entry) == [id |-> entry.id, archivedAt |-> "now"]

\* ({ archivedAt, ...rest }) => rest
withoutArchivedAt(entry) == [id |-> entry.id]

\* entries.filter((entry) => idsSet.has(entry.id))
keepIds(entries, ids) == SelectSeq(entries, LAMBDA entry : entry.id \in ids)

\* entries.filter((entry) => !idsSet.has(entry.id))
dropIds(entries, ids) == SelectSeq(entries, LAMBDA entry : entry.id \notin ids)

logsDone(route, status) == [pc |-> "done", route |-> route, status |-> status]

\* a request can start: the requests are numbered in the order they arrive
canStart(q) ==
    /\ logRequests[q].pc = "idle"
    /\ \A p \in 1..(q - 1) : logRequests[p].pc # "idle"

\* POST /api/logs with one valid log: buildLogEntry gives it a fresh id
logsPOST(q) ==
    /\ canStart(q)
    /\ logRequests' = [logRequests EXCEPT ![q] =
          [pc |-> "readLogs", route |-> logsPOSTRoute, normalized |-> <<[id |-> q]>>]]
    /\ UNCHANGED <<activityLogs, archivedLogs>>

\* const existing = await readLogs(); nextLogs = [...normalized, ...existing]
logsPOSTRead(q) ==
    /\ logRequests[q].pc = "readLogs"
    /\ logRequests[q].route = logsPOSTRoute
    /\ logRequests' = [logRequests EXCEPT ![q] =
          [pc |-> "writeLogs", route |-> logsPOSTRoute, status |-> 201,
           nextLogs |-> logRequests[q].normalized \o activityLogs]]
    /\ UNCHANGED <<activityLogs, archivedLogs>>

\* DELETE /api/logs with mode "all" or "selected" and, for "selected", ids
logsDELETE(q, mode, ids) ==
    /\ canStart(q)
    /\ logRequests' = [logRequests EXCEPT ![q] =
          [pc |-> "readLogs", route |-> logsDELETERoute, mode |-> mode, ids |-> ids]]
    /\ UNCHANGED <<activityLogs, archivedLogs>>

\* const existing = await readLogs()
logsDELETEReadLogs(q) ==
    /\ logRequests[q].pc = "readLogs"
    /\ logRequests[q].route = logsDELETERoute
    /\ logRequests' = [logRequests EXCEPT ![q] =
          [pc |-> "readArchive", route |-> logsDELETERoute,
           mode |-> logRequests[q].mode, ids |-> logRequests[q].ids,
           existing |-> activityLogs]]
    /\ UNCHANGED <<activityLogs, archivedLogs>>

\* const existingArchive = await readArchive(), and the handler up to its
\* first write: nothing to archive answers 200 (all) or 404 (selected)
logsDELETEReadArchive(q) ==
    /\ logRequests[q].pc = "readArchive"
    /\ logRequests[q].route = logsDELETERoute
    /\ LET r == logRequests[q]
           toArchive == IF r.mode = "all" THEN r.existing ELSE keepIds(r.existing, r.ids)
           nextLogs == IF r.mode = "all" THEN <<>> ELSE dropIds(r.existing, r.ids)
           archivedEntries == [i \in 1..Len(toArchive) |-> withArchivedAt(toArchive[i])]
       IN  logRequests' = [logRequests EXCEPT ![q] =
              IF Len(toArchive) = 0
              THEN logsDone(logsDELETERoute, IF r.mode = "all" THEN 200 ELSE 404)
              ELSE [pc |-> "writeArchive", route |-> logsDELETERoute, status |-> 200,
                    nextArchive |-> archivedEntries \o archivedLogs,
                    nextLogs |-> nextLogs]]
    /\ UNCHANGED <<activityLogs, archivedLogs>>

\* DELETE /api/logs/[id]
logDELETE(q, id) ==
    /\ canStart(q)
    /\ logRequests' = [logRequests EXCEPT ![q] =
          [pc |-> "readLogs", route |-> logDELETERoute, id |-> id]]
    /\ UNCHANGED <<activityLogs, archivedLogs>>

\* const logs = await readLogs(); entry = logs.find(...), 404 without one
logDELETEReadLogs(q) ==
    /\ logRequests[q].pc = "readLogs"
    /\ logRequests[q].route = logDELETERoute
    /\ LET id == logRequests[q].id
           found == keepIds(activityLogs, {id})
       IN  logRequests' = [logRequests EXCEPT ![q] =
              IF Len(found) = 0
              THEN logsDone(logDELETERoute, 404)
              ELSE [pc |-> "readArchive", route |-> logDELETERoute, id |-> id,
                    entry |-> found[1], nextLogs |-> dropIds(activityLogs, {id})]]
    /\ UNCHANGED <<activityLogs, archivedLogs>>

\* const archive = await readArchive(); archivedEntry = {...entry, archivedAt}
logDELETEReadArchive(q) ==
    /\ logRequests[q].pc = "readArchive"
    /\ logRequests[q].route = logDELETERoute
    /\ logRequests' = [logRequests EXCEPT ![q] =
          [pc |-> "writeArchive", route |-> logDELETERoute, status |-> 200,
           nextArchive |-> <<withArchivedAt(logRequests[q].entry)>> \o archivedLogs,
           nextLogs |-> logRequests[q].nextLogs]]
    /\ UNCHANGED <<activityLogs, archivedLogs>>

\* POST /api/logs/archive with mode "all" or "selected": restore
archivePOST(q, mode, ids) ==
    /\ canStart(q)
    /\ logRequests' = [logRequests EXCEPT ![q] =
          [pc |-> "readArchive", route |-> archivePOSTRoute, mode |-> mode, ids |-> ids]]
    /\ UNCHANGED <<activityLogs, archivedLogs>>

\* const archive = await readArchive()
archivePOSTReadArchive(q) ==
    /\ logRequests[q].pc = "readArchive"
    /\ logRequests[q].route = archivePOSTRoute
    /\ logRequests' = [logRequests EXCEPT ![q] =
          [pc |-> "readLogs", route |-> archivePOSTRoute,
           mode |-> logRequests[q].mode, ids |-> logRequests[q].ids,
           archive |-> archivedLogs]]
    /\ UNCHANGED <<activityLogs, archivedLogs>>

\* const existingLogs = await readLogs(), and the handler up to its first
\* write: nothing to restore answers 200 (all) or 404 (selected)
archivePOSTReadLogs(q) ==
    /\ logRequests[q].pc = "readLogs"
    /\ logRequests[q].route = archivePOSTRoute
    /\ LET r == logRequests[q]
           toRestore == IF r.mode = "all" THEN r.archive ELSE keepIds(r.archive, r.ids)
           remaining == IF r.mode = "all" THEN <<>> ELSE dropIds(r.archive, r.ids)
           restored == [i \in 1..Len(toRestore) |-> withoutArchivedAt(toRestore[i])]
       IN  logRequests' = [logRequests EXCEPT ![q] =
              IF Len(toRestore) = 0
              THEN logsDone(archivePOSTRoute, IF r.mode = "all" THEN 200 ELSE 404)
              ELSE [pc |-> "writeLogs", route |-> archivePOSTRoute, status |-> 200,
                    nextLogs |-> restored \o activityLogs,
                    nextArchive |-> remaining]]
    /\ UNCHANGED <<activityLogs, archivedLogs>>

\* await writeLogs(...) resolves; a restore goes on to writeArchive, the
\* other handlers answer
writeLogs(q) ==
    /\ logRequests[q].pc = "writeLogs"
    /\ activityLogs' = logRequests[q].nextLogs
    /\ logRequests' = [logRequests EXCEPT ![q] =
          IF logRequests[q].route = archivePOSTRoute
          THEN [logRequests[q] EXCEPT !.pc = "writeArchive"]
          ELSE logsDone(logRequests[q].route, logRequests[q].status)]
    /\ UNCHANGED archivedLogs

\* await writeArchive(...) resolves; an archive goes on to writeLogs, a
\* restore answers
writeArchive(q) ==
    /\ logRequests[q].pc = "writeArchive"
    /\ archivedLogs' = logRequests[q].nextArchive
    /\ logRequests' = [logRequests EXCEPT ![q] =
          IF logRequests[q].route = archivePOSTRoute
          THEN logsDone(logRequests[q].route, logRequests[q].status)
          ELSE [logRequests[q] EXCEPT !.pc = "writeLogs"]]
    /\ UNCHANGED activityLogs

\* a write rejects: the catch block answers 500
writeRejected(q) ==
    /\ logRequests[q].pc \in {"writeLogs", "writeArchive"}
    /\ logRequests' = [logRequests EXCEPT ![q] = logsDone(logRequests[q].route, 500)]
    /\ UNCHANGED <<activityLogs, archivedLogs>>

----------------------------------------------------------------------------
(* The logs routes under concurrent requests: specification SpecLogs *)

LogModes == {"all", "selected"}

\* the ids a "selected" request names: one log
LogIdSets == {{id} : id \in 1..MaxLogReq}

SpecLogsInit ==
    /\ activityLogs = <<>>
    /\ archivedLogs = <<>>
    /\ logRequests = [q \in 1..MaxLogReq |-> [pc |-> "idle"]]
    /\ toast = null
    /\ memoDeps = <<>>
    /\ updates = <<>>
    /\ scheduleLoad = "pending"
    /\ ResolveIdle /\ EditorInit /\ DiffIdle /\ ServerIdle /\ StoreIdle /\ WindowIdle

OthersOfLogs == <<resolveVars, editorVars, diffVars, serverVars, storeVars, windowVars,
                  toast, memoDeps, updates, scheduleLoad>>

LogsPost == (\E q \in 1..MaxLogReq : logsPOST(q)) /\ UNCHANGED OthersOfLogs

LogsPostRead == (\E q \in 1..MaxLogReq : logsPOSTRead(q)) /\ UNCHANGED OthersOfLogs

LogsDelete ==
    /\ \E q \in 1..MaxLogReq, mode \in LogModes, ids \in LogIdSets : logsDELETE(q, mode, ids)
    /\ UNCHANGED OthersOfLogs

LogsDeleteReadLogs == (\E q \in 1..MaxLogReq : logsDELETEReadLogs(q)) /\ UNCHANGED OthersOfLogs

LogsDeleteReadArchive == (\E q \in 1..MaxLogReq : logsDELETEReadArchive(q)) /\ UNCHANGED OthersOfLogs

LogDelete == (\E q \in 1..MaxLogReq, id \in 1..MaxLogReq : logDELETE(q, id)) /\ UNCHANGED OthersOfLogs

LogDeleteReadLogs == (\E q \in 1..MaxLogReq : logDELETEReadLogs(q)) /\ UNCHANGED OthersOfLogs

LogDeleteReadArchive == (\E q \in 1..MaxLogReq : logDELETEReadArchive(q)) /\ UNCHANGED OthersOfLogs

ArchivePost ==
    /\ \E q \in 1..MaxLogReq, mode \in LogModes, ids \in LogIdSets : archivePOST(q, mode, ids)
    /\ UNCHANGED OthersOfLogs

ArchivePostReadArchive == (\E q \in 1..MaxLogReq : archivePOSTReadArchive(q)) /\ UNCHANGED OthersOfLogs

ArchivePostReadLogs == (\E q \in 1..MaxLogReq : archivePOSTReadLogs(q)) /\ UNCHANGED OthersOfLogs

WriteLogs == (\E q \in 1..MaxLogReq : writeLogs(q)) /\ UNCHANGED OthersOfLogs

WriteArchive == (\E q \in 1..MaxLogReq : writeArchive(q)) /\ UNCHANGED OthersOfLogs

WriteRejected == (\E q \in 1..MaxLogReq : writeRejected(q)) /\ UNCHANGED OthersOfLogs

SpecLogsNext ==
    \/ LogsPost \/ LogsPostRead
    \/ LogsDelete \/ LogsDeleteReadLogs \/ LogsDeleteReadArchive
    \/ LogDelete \/ LogDeleteReadLogs \/ LogDeleteReadArchive
    \/ ArchivePost \/ ArchivePostReadArchive \/ ArchivePostReadLogs
    \/ WriteLogs \/ WriteArchive \/ WriteRejected

SpecLogs == SpecLogsInit /\ [][SpecLogsNext]_vars

\* --- C30 --------------------------------------------------------------
\* the logs whose creation was answered 201
CreatedLogs ==
    {q \in 1..MaxLogReq :
        /\ logRequests[q].pc = "done"
        /\ logRequests[q].route = logsPOSTRoute
        /\ logRequests[q].status = 201}

\* how many entries of the list have the id
CountLog(list, id) == Len(keepIds(list, {id}))

\* C30: after any interleaving of creation, archive (one, selected, all)
\* and restore requests, concurrent ones and ones whose second file write
\* fails included, every log that was created is, once no request is under
\* way, in exactly one of the active list and the archive, once.
C30_ExactlyOneOfActiveAndArchive ==
    (\A q \in 1..MaxLogReq : logRequests[q].pc \in {"idle", "done"}) =>
        \A id \in CreatedLogs :
            CountLog(activityLogs, id) + CountLog(archivedLogs, id) = 1
====
